---- MODULE Spec2Model ----
(***************************************************************************)
(* A model of MQLib's translation engine: the three SQL adapters           *)
(* (SQLite, PostgreSQL, MySQL) built on BaseSqlAdapter, which turn         *)
(* MongoDB-style filters, updates, documents and find options into         *)
(* parameterised SQL.                                                      *)
(*                                                                         *)
(* SQL text is modelled as a sequence of tokens rather than characters,    *)
(* so that the origin of every piece of the text stays visible:            *)
(*   kw    fixed SQL text written in the adapter's source                  *)
(*   ph    a parameter placeholder produced by getParameterPlaceholder;    *)
(*         n is 0 for "?" and N for "$N"; for is the value the             *)
(*         placeholder was emitted for (ghost, not part of the text)       *)
(*   nm    a caller-supplied name interpolated as it was given             *)
(*   q     an identifier in quotes: by = "esc" when escapeIdentifier       *)
(*         produced it, by = "raw" when the source wrote the quotes itself *)
(*   slit  a single-quoted SQL string literal and what is inside it        *)
(*   val   a caller-supplied value interpolated into the text              *)
(*   frag  a character range of another token (cut by substring)           *)
(* Names are atomic strings without quote characters; values are tagged    *)
(* records.                                                                *)
(***************************************************************************)
EXTENDS Integers, Sequences, FiniteSets, TLC

VARIABLES
    isSchemaEnabled,    \* SqliteAdapter.isSchemaEnabled
    collectionSchemas,  \* SqliteAdapter.collectionSchemas: table name -> schema
    request,            \* the call under study: the adapter, the method and its arguments
    response,           \* what the call returned (or threw) the last time it was made
    table,              \* the collection's table in the database: its columns and its rows
    calls               \* the Collection method each client called last, and how far it is

vars == <<isSchemaEnabled, collectionSchemas, request, response, table, calls>>

----------------------------------------------------------------------------
(* Bounds of the model *)

\* Largest number of top-level keys in a generated filter.
MaxKeys == 2
\* Largest number of sub-filters in the list of a $and/$or/$nor.
MaxSubs == 2
\* Largest number of elements in an array literal ($in, $nin, $all, field: [..]).
MaxArr == 2
\* The longest list of raw rows handed to processQueryResult
MaxRows == 2

----------------------------------------------------------------------------
(* Generic helpers *)

FoldSeq(F(_, _), acc, s) ==
    LET f[i \in 0..Len(s)] == IF i = 0 THEN acc ELSE F(f[i - 1], s[i])
    IN f[Len(s)]

Range(s) == {s[i] : i \in DOMAIN s}

SeqsUpTo(S, n) == UNION {[1..m -> S] : m \in 0..n}

----------------------------------------------------------------------------
(* Values handed in by the caller *)

Num(n) == [t |-> "num", n |-> n]
Str(s) == [t |-> "str", s |-> s]
Bool(b) == [t |-> "bool", b |-> b]
Null == [t |-> "null"]
Undef == [t |-> "undef"]
Arr(xs) == [t |-> "arr", items |-> xs]
\* A JavaScript object: e is the sequence of its entries in insertion order.
Obj(es) == [t |-> "obj", e |-> es]
Ent(k, v) == [k |-> k, v |-> v]
\* The string JSON.stringify(v).
Json(v) == [t |-> "json", of |-> v]
\* The LIKE pattern SqliteAdapter derives from a $regex string.
LikePattern(v) == [t |-> "like", of |-> v]

EmptyFilter == Obj(<<>>)

IsObject(v) == v.t \in {"obj", "arr"}          \* typeof v === 'object' && v !== null
IsPlainObject(v) == v.t = "obj"                \* ... && !Array.isArray(v)
IsArray(v) == v.t = "arr"
Truthy(v) ==
    CASE v.t \in {"null", "undef"} -> FALSE
      [] v.t = "bool" -> v.b
      [] v.t = "num" -> v.n # 0
      [] v.t = "str" -> v.s # ""
      [] OTHER -> TRUE

\* The names of the model that begin with "$" (key.startsWith('$')).
DollarNames ==
    {"$and", "$or", "$nor", "$not", "$eq", "$ne", "$gt", "$gte", "$lt", "$lte",
     "$in", "$nin", "$exists", "$regex", "$all", "$elemMatch", "$size",
     "$type", "$mod", "$like", "$ilike", "$contains", "$containsAny", "$foo"}
StartsWithDollar(key) == key \in DollarNames

\* key.split('.') for the dotted names of the model.
Split(key) ==
    CASE key = "addr.city" -> <<"addr", "city">>
      [] key = "tags.name" -> <<"tags", "name">>
      [] key = "skills.name" -> <<"skills", "name">>
      [] key = "zip.code" -> <<"zip", "code">>
      [] key = "tags.0" -> <<"tags", "0">>
      [] key = "tags.0.name" -> <<"tags", "0", "name">>
      [] OTHER -> <<key>>
IncludesDot(key) == Len(Split(key)) > 1
\* parts.join('.')
JoinDot(parts) ==
    FoldSeq(LAMBDA acc, p: IF acc = "" THEN p ELSE acc \o "." \o p, "", parts)
\* !isNaN(Number(s))
IsNumeric(s) == s \in {"0", "1"}
ToNumber(s) == IF s = "0" THEN 0 ELSE 1

\* Object.entries(v): own enumerable properties; an array's are its indices.
IndexName(i) == CASE i = 1 -> "0" [] i = 2 -> "1" [] i = 3 -> "2" [] OTHER -> "3"
Entries(v) ==
    CASE v.t = "obj" -> v.e
      [] v.t = "arr" -> [i \in DOMAIN v.items |-> Ent(IndexName(i), v.items[i])]
      [] v.t = "str" -> IF v.s = "" THEN <<>> ELSE <<Ent("0", v)>>
      [] OTHER -> <<>>
\* Object.entries / Object.keys throw a TypeError on null and undefined.
EntriesThrows(v) == v.t \in {"null", "undef"}
Keys(v) == [i \in DOMAIN Entries(v) |-> Entries(v)[i].k]
HasKey(v, key) == \E i \in DOMAIN Entries(v) : Entries(v)[i].k = key
\* obj[key] with the last assignment winning; Undef when absent.
Get(v, key) ==
    IF HasKey(v, key)
    THEN LET i == CHOOSE j \in DOMAIN v.e : v.e[j].k = key /\ \A l \in DOMAIN v.e : v.e[l].k = key => l <= j
         IN v.e[i].v
    ELSE Undef

----------------------------------------------------------------------------
(* SQL text *)

Kw(s) == [k |-> "kw", s |-> s]
Ph(n, v) == [k |-> "ph", n |-> n, for |-> v]
Nm(s) == [k |-> "nm", s |-> s]
Q(by, d, inner) == [k |-> "q", by |-> by, d |-> d, inner |-> inner]
SLit(inner) == [k |-> "slit", inner |-> inner]
VLit(v) == [k |-> "val", v |-> v]
Frag(tok, from, to) == [k |-> "frag", of |-> tok, from |-> from, to |-> to]

NoErr == ""
\* An SqlQuery, with the error thrown instead of it (NoErr when none was thrown).
Query(sql, params, err) == [sql |-> sql, params |-> params, err |-> err]
Throw(msg) == Query(<<>>, <<>>, msg)

\* texts.join(sep)
Join(texts, sep) ==
    FoldSeq(LAMBDA acc, x: IF acc.first THEN [first |-> FALSE, txt |-> x]
                           ELSE [first |-> FALSE, txt |-> acc.txt \o <<Kw(sep)>> \o x],
            [first |-> TRUE, txt |-> <<>>], texts).txt

\* Number of characters of a rendered value (only small literals are interpolated).
ValWidth(v) == IF v.t = "num" /\ v.n >= 10 THEN 2 ELSE 1

RECURSIVE Width(_)
Width(text) ==
    IF text = <<>> THEN 0
    ELSE LET tok == Head(text)
             w == CASE tok.k = "kw" -> Len(tok.s)
                    [] tok.k = "ph" -> IF tok.n = 0 THEN 1 ELSE 2
                    [] tok.k = "nm" -> Len(tok.s)
                    [] tok.k = "q" -> 2 + Width(tok.inner)
                    [] tok.k = "slit" -> 2 + Width(tok.inner)
                    [] tok.k = "val" -> ValWidth(tok.v)
                    [] OTHER -> tok.to - tok.from
         IN w + Width(Tail(text))

\* text.substring(0, n)
RECURSIVE TakeChars(_, _)
TakeChars(text, n) ==
    IF text = <<>> \/ n <= 0 THEN <<>>
    ELSE LET tok == Head(text)
             w == Width(<<tok>>)
         IN IF w <= n THEN <<tok>> \o TakeChars(Tail(text), n - w)
            ELSE IF tok.k = "frag" THEN <<Frag(tok.of, tok.from, tok.from + n)>>
            ELSE <<Frag(tok, 0, n)>>

\* text.substring(n)
RECURSIVE DropChars(_, _)
DropChars(text, n) ==
    IF text = <<>> THEN <<>>
    ELSE IF n <= 0 THEN text
    ELSE LET tok == Head(text)
             w == Width(<<tok>>)
         IN IF w <= n THEN DropChars(Tail(text), n - w)
            ELSE IF tok.k = "frag" THEN <<Frag(tok.of, tok.from + n, tok.to)>> \o Tail(text)
            ELSE <<Frag(tok, n, w)>> \o Tail(text)

\* The placeholders of a statement in text order: the ph tokens outside quotes.
Placeholders(text) == SelectSeq(text, LAMBDA tok: tok.k = "ph")

\* text.trim() === '' for the texts the adapters build (never blank but non-empty).
IsBlank(text) == text = <<>>

----------------------------------------------------------------------------
(* Identifier/value serializer *)

Adapters == {"sqlite", "postgres", "mysql"}
\* The dialect's quoting character: a backtick (MySQL) or a double quote.
QuoteChar(ad) == IF ad = "mysql" THEN "backtick" ELSE "dquote"

\* escapeIdentifier: the identifier text wrapped in the dialect's quotes, with
\* the quote characters inside it doubled. The names of the model hold no quote
\* character, so the doubling only shows when the argument is itself quoted.
escapeIdentifier(ad, ident) == <<Q("esc", QuoteChar(ad), ident)>>

\* getParameterPlaceholder(index), index 0-based; v is the value it stands for.
getParameterPlaceholder(ad, index, v) == Ph(IF ad = "postgres" THEN index + 1 ELSE 0, v)

\* BaseSqlAdapter.serializeValue
serializeValue(v) ==
    CASE v.t \in {"null", "undef"} -> Null
      [] v.t \in {"obj", "arr"} -> Json(v)
      [] OTHER -> v

\* typeof value === 'object' ? JSON.stringify(value) : value   (typeof null is 'object')
StringifyIfObject(v) == IF v.t \in {"obj", "arr", "null"} THEN Json(v) ELSE v
\* An object that refers to itself: typeof 'object', and JSON.stringify(v)
\* throws a TypeError ("Converting circular structure to JSON").
Cyclic == [t |-> "cyc"]
StringifyThrows(v) == v.t = "cyc"

----------------------------------------------------------------------------
(* Method calls *)

\* this.<method>(...args) on an adapter of class ad. The adapters' methods call
\* each other through it; it is defined once all of them are.
RECURSIVE Invoke(_, _, _)

----------------------------------------------------------------------------
(* Operator condition builders *)

\* The running state of a builder loop: the conditions so far, the shared
\* params array, and the error thrown (NoErr while none).
Acc(conds, params) == [conds |-> conds, params |-> params, err |-> NoErr]
AddCond(acc, cond) == [acc EXCEPT !.conds = Append(@, cond)]
\* params.push(pv); conditions.push(`${column}${op}${placeholder(params.length - 1)}`)
AddCmp(ad, acc, column, op, pv) ==
    [acc EXCEPT !.conds = Append(@, column \o <<Kw(op), getParameterPlaceholder(ad, Len(acc.params), pv)>>),
                !.params = Append(@, pv)]
\* One placeholder per item, each item pushed onto params.
AddList(ad, acc, column, op, pvs) ==
    LET phs == [i \in DOMAIN pvs |-> <<getParameterPlaceholder(ad, Len(acc.params) + i - 1, pvs[i])>>]
    IN [acc EXCEPT !.conds = Append(@, column \o <<Kw(op)>> \o Join(phs, ", ") \o <<Kw(")")>>),
                   !.params = @ \o pvs]
Fail(acc, msg) == [acc EXCEPT !.err = msg]
\* const name = value; rest - the value is computed once and named in the rest.
Given(value, Rest(_)) == Rest(value)
\* What a builder returns at the end of its loop: conditions.join(' AND ').
Conjoined(acc) == Query(Join(acc.conds, " AND "), acc.params, acc.err)
\* if (r.sql) conditions.push(r.sql) for the result r of a nested builder, whose
\* params array is the shared one; its error propagates.
Absorb(acc, r) ==
    IF r.err # NoErr THEN Fail(acc, r.err)
    ELSE [acc EXCEPT !.conds = IF r.sql # <<>> THEN Append(@, r.sql) ELSE @,
                     !.params = r.params]

BaseOperatorStep(ad, column, acc, e) ==
    LET op == e.k
        value == e.v
    IN IF acc.err # NoErr THEN acc
       ELSE CASE op = "$eq" ->
                   IF value.t = "null" THEN AddCond(acc, column \o <<Kw(" IS NULL")>>)
                   ELSE AddCmp(ad, acc, column, " = ", serializeValue(value))
              [] op = "$ne" ->
                   IF value.t = "null" THEN AddCond(acc, column \o <<Kw(" IS NOT NULL")>>)
                   ELSE AddCmp(ad, acc, column, " <> ", serializeValue(value))
              [] op = "$gt" -> AddCmp(ad, acc, column, " > ", serializeValue(value))
              [] op = "$gte" -> AddCmp(ad, acc, column, " >= ", serializeValue(value))
              [] op = "$lt" -> AddCmp(ad, acc, column, " < ", serializeValue(value))
              [] op = "$lte" -> AddCmp(ad, acc, column, " <= ", serializeValue(value))
              [] op = "$in" ->
                   IF IsArray(value) /\ Len(value.items) > 0
                   THEN AddList(ad, acc, column, " IN (", [i \in DOMAIN value.items |-> serializeValue(value.items[i])])
                   ELSE AddCond(acc, <<Kw("FALSE")>>)
              [] op = "$nin" ->
                   IF IsArray(value) /\ Len(value.items) > 0
                   THEN AddList(ad, acc, column, " NOT IN (", [i \in DOMAIN value.items |-> serializeValue(value.items[i])])
                   ELSE AddCond(acc, <<Kw("TRUE")>>)
              [] op = "$exists" ->
                   AddCond(acc, column \o <<Kw(IF Truthy(value) THEN " IS NOT NULL" ELSE " IS NULL")>>)
              [] op = "$regex" -> AddCmp(ad, acc, column, " REGEXP ", serializeValue(value))
              [] op \in {"$all", "$elemMatch", "$size", "$type", "$mod"} ->
                   Fail(acc, "not implemented in base adapter")
              [] OTHER -> acc

\* BaseSqlAdapter.buildOperatorConditions
BaseBuildOperatorConditions(ad, column, operators, params) ==
    Given(FoldSeq(LAMBDA acc, e: BaseOperatorStep(ad, column, acc, e), Acc(<<>>, params), Entries(operators)),
          LAMBDA r: Query(IF Len(r.conds) > 0 THEN <<Kw("(")>> \o Join(r.conds, " AND ") \o <<Kw(")")>> ELSE <<>>,
                          r.params, r.err))

PgOperatorStep(ad, escapedColumn, acc, e) ==
    LET op == e.k
        value == e.v
    IN CASE op = "$eq" -> AddCmp(ad, acc, escapedColumn, " = ", value)
         [] op = "$ne" -> AddCmp(ad, acc, escapedColumn, " != ", value)
         [] op = "$gt" -> AddCmp(ad, acc, escapedColumn, " > ", value)
         [] op = "$gte" -> AddCmp(ad, acc, escapedColumn, " >= ", value)
         [] op = "$lt" -> AddCmp(ad, acc, escapedColumn, " < ", value)
         [] op = "$lte" -> AddCmp(ad, acc, escapedColumn, " <= ", value)
         [] op = "$in" ->
              IF IsArray(value) /\ Len(value.items) > 0
              THEN AddList(ad, acc, escapedColumn, " IN (", value.items)
              ELSE AddCond(acc, <<Kw("FALSE")>>)
         [] op = "$nin" ->
              IF IsArray(value) /\ Len(value.items) > 0
              THEN AddList(ad, acc, escapedColumn, " NOT IN (", value.items)
              ELSE AddCond(acc, <<Kw("TRUE")>>)
         [] op = "$exists" ->
              AddCond(acc, escapedColumn \o <<Kw(IF Truthy(value) THEN " IS NOT NULL" ELSE " IS NULL")>>)
         [] op = "$regex" -> AddCmp(ad, acc, escapedColumn, " ~ ", value)
         [] op = "$like" -> AddCmp(ad, acc, escapedColumn, " LIKE ", value)
         [] op = "$ilike" -> AddCmp(ad, acc, escapedColumn, " ILIKE ", value)
         [] op = "$contains" ->
              [acc EXCEPT !.conds = Append(@, escapedColumn \o <<Kw(" @> "),
                                               getParameterPlaceholder(ad, Len(acc.params), Json(Arr(<<value>>))),
                                               Kw("::jsonb")>>),
                          !.params = Append(@, Json(Arr(<<value>>)))]
         [] op = "$containsAny" ->
              IF IsArray(value) THEN AddCmp(ad, acc, escapedColumn, " ?| ", value) ELSE acc
         [] OTHER -> acc

\* PostgresAdapter.buildOperatorConditions
PgBuildOperatorConditions(ad, column, operators, params) ==
    LET escapedColumn == escapeIdentifier(ad, column)
    IN Conjoined(FoldSeq(LAMBDA acc, e: PgOperatorStep(ad, escapedColumn, acc, e), Acc(<<>>, params), Entries(operators)))

MyOperatorStep(ad, escapedColumn, acc, e) ==
    LET op == e.k
        value == e.v
    IN CASE op = "$eq" -> AddCmp(ad, acc, escapedColumn, " = ", value)
         [] op = "$ne" -> AddCmp(ad, acc, escapedColumn, " != ", value)
         [] op = "$gt" -> AddCmp(ad, acc, escapedColumn, " > ", value)
         [] op = "$gte" -> AddCmp(ad, acc, escapedColumn, " >= ", value)
         [] op = "$lt" -> AddCmp(ad, acc, escapedColumn, " < ", value)
         [] op = "$lte" -> AddCmp(ad, acc, escapedColumn, " <= ", value)
         [] op = "$in" ->
              IF IsArray(value) /\ Len(value.items) > 0
              THEN AddList(ad, acc, escapedColumn, " IN (", value.items)
              ELSE AddCond(acc, <<Kw("FALSE")>>)
         [] op = "$nin" ->
              IF IsArray(value) /\ Len(value.items) > 0
              THEN AddList(ad, acc, escapedColumn, " NOT IN (", value.items)
              ELSE AddCond(acc, <<Kw("TRUE")>>)
         [] op = "$exists" ->
              AddCond(acc, escapedColumn \o <<Kw(IF Truthy(value) THEN " IS NOT NULL" ELSE " IS NULL")>>)
         [] op = "$regex" -> AddCmp(ad, acc, escapedColumn, " REGEXP ", value)
         [] op = "$like" -> AddCmp(ad, acc, escapedColumn, " LIKE ", value)
         [] op = "$contains" ->
              [acc EXCEPT !.conds = Append(@, <<Kw("JSON_CONTAINS(")>> \o escapedColumn \o
                                              <<Kw(", "), getParameterPlaceholder(ad, Len(acc.params), Json(value)), Kw(")")>>),
                          !.params = Append(@, Json(value))]
         [] op = "$containsAny" ->
              IF IsArray(value)
              THEN LET ors == [i \in DOMAIN value.items |->
                                 <<Kw("JSON_CONTAINS(")>> \o escapedColumn \o
                                 <<Kw(", "), getParameterPlaceholder(ad, Len(acc.params) + i - 1, Json(value)), Kw(")")>>]
                   IN [acc EXCEPT !.conds = Append(@, <<Kw("(")>> \o Join(ors, " OR ") \o <<Kw(")")>>),
                                  !.params = @ \o [i \in DOMAIN value.items |-> Json(value)]]
              ELSE acc
         [] OTHER -> acc

\* MySqlAdapter.buildOperatorConditions
MyBuildOperatorConditions(ad, column, operators, params) ==
    LET escapedColumn == escapeIdentifier(ad, column)
    IN Conjoined(FoldSeq(LAMBDA acc, e: MyOperatorStep(ad, escapedColumn, acc, e), Acc(<<>>, params), Entries(operators)))

\* The comparison operators $elemMatch accepts for a property of an element.
ElemMatchOps == {"$eq", "$ne", "$gt", "$gte", "$lt", "$lte"}
ElemMatchKw(op) ==
    CASE op = "$eq" -> " = " [] op = "$ne" -> " != " [] op = "$gt" -> " > "
      [] op = "$gte" -> " >= " [] op = "$lt" -> " < " [] OTHER -> " <= "

\* json_extract(<elem>, '$.<name>'): the name goes into the JSON path as given.
ElemPath(elem, name) == <<Kw("json_extract(" \o elem \o ", "), SLit(<<Kw("$."), Nm(name)>>), Kw(")")>>

\* conditions.push(`EXISTS (SELECT 1 FROM json_each(<column>) WHERE <the element
\* conditions>)`) when the $elemMatch loop r produced any.
AddExists(acc, column, r) ==
    IF r.err # NoErr THEN Fail(acc, r.err)
    ELSE IF Len(r.conds) > 0
    THEN [acc EXCEPT !.conds = Append(@, <<Kw("EXISTS (SELECT 1 FROM json_each(")>> \o column \o
                                         <<Kw(") WHERE ")>> \o Join(r.conds, " AND ") \o <<Kw(")")>>),
                     !.params = r.params]
    ELSE [acc EXCEPT !.params = r.params]

\* The body of the $elemMatch loops of SqliteAdapter (buildOperatorConditions and
\* buildSchemaBasedWhereClause differ only in how they name the element).
ElemMatchConditions(ad, elem, value, params) ==
    FoldSeq(LAMBDA acc, sub:
                IF acc.err # NoErr THEN acc
                ELSE IF IsPlainObject(sub.v)
                THEN FoldSeq(LAMBDA a, o:
                                 IF a.err # NoErr THEN a
                                 ELSE IF o.k \in ElemMatchOps
                                 THEN AddCmp(ad, a, ElemPath(elem, sub.k), ElemMatchKw(o.k), o.v)
                                 ELSE Fail(a, "Nested operator not implemented for $elemMatch in SQLite"),
                             acc, Entries(sub.v))
                ELSE AddCmp(ad, acc, ElemPath(elem, sub.k), " = ", sub.v),
            Acc(<<>>, params), Entries(value))

SqOperatorStep(ad, column, acc, e) ==
    LET op == e.k
        value == e.v
    IN IF acc.err # NoErr THEN acc
       ELSE CASE op = "$regex" -> AddCmp(ad, acc, column, " LIKE ", LikePattern(value))
              [] op = "$all" /\ IsArray(value) ->
                   LET alls == [i \in DOMAIN value.items |->
                                  <<Kw("json_array_length(json_extract(")>> \o column \o
                                  <<Kw(", "), SLit(<<Kw("$[?]")>>), Kw(")) > 0")>>]
                       pushed == [acc EXCEPT !.params = @ \o [i \in DOMAIN value.items |-> Json(value.items[i])]]
                   IN IF Len(alls) > 0
                      THEN AddCond(pushed, <<Kw("(")>> \o Join(alls, " AND ") \o <<Kw(")")>>)
                      ELSE pushed
              [] op = "$size" /\ value.t = "num" ->
                   [acc EXCEPT !.conds = Append(@, <<Kw("json_array_length(")>> \o column \o
                                                   <<Kw(") = "), getParameterPlaceholder(ad, Len(acc.params), value)>>),
                               !.params = Append(@, value)]
              [] op = "$elemMatch" /\ IsObject(value) ->
                   AddExists(acc, column, ElemMatchConditions(ad, "json_each.value", value, acc.params))
              [] op \in {"$all", "$size", "$elemMatch"} ->
                   Fail(acc, "Operator not fully implemented for SQLite with the provided value type")
              [] OTHER ->
                   Given(BaseBuildOperatorConditions(ad, column, Obj(<<Ent(op, value)>>), acc.params),
                         LAMBDA base:
                             IF base.err # NoErr THEN Fail(acc, "Operator not implemented for SQLite")
                             ELSE IF base.sql # <<>>
                             THEN [acc EXCEPT !.conds = Append(@, base.sql), !.params = base.params]
                             ELSE [acc EXCEPT !.params = base.params])

\* SqliteAdapter.buildOperatorConditions
SqBuildOperatorConditions(ad, column, operators, params) ==
    IF EntriesThrows(operators) THEN Throw("TypeError") ELSE
    Conjoined(FoldSeq(LAMBDA acc, e: SqOperatorStep(ad, column, acc, e), Acc(<<>>, params), Entries(operators)))

\* this.buildOperatorConditions: the method of the adapter's own class.
buildOperatorConditions(ad, column, operators, params) ==
    Invoke(ad, "buildOperatorConditions", <<column, operators, params>>)

----------------------------------------------------------------------------
(* Filter translators of BaseSqlAdapter (used by PostgreSQL) and MySqlAdapter *)

\* One recursive call per sub-filter of a combinator's list, sharing params.
\* sub(f, params) is the recursive translation; the empty results are dropped.
MapSubFilters(sub(_, _), list, params) ==
    FoldSeq(LAMBDA acc, f:
                IF acc.err # NoErr THEN acc
                ELSE Absorb(acc, sub(f, acc.params)),
            Acc(<<>>, params), list)

\* conditions.push of the joined sub-conditions of $and / $or / $nor.
Combined(key, subConds) ==
    CASE key = "$and" -> <<Kw("(")>> \o Join(subConds, " AND ") \o <<Kw(")")>>
      [] key = "$or" -> <<Kw("(")>> \o Join(subConds, " OR ") \o <<Kw(")")>>
      [] OTHER -> <<Kw("NOT (")>> \o Join(subConds, " OR ") \o <<Kw(")")>>
\* if (subConditions.length > 0) conditions.push(<the combined sub-conditions>)
AddCombined(acc, key, r) ==
    IF r.err # NoErr THEN Fail(acc, r.err)
    ELSE [acc EXCEPT !.conds = IF Len(r.conds) > 0 THEN Append(@, Combined(key, r.conds)) ELSE @,
                     !.params = r.params]

RECURSIVE buildWhereClause(_, _, _, _)
\* BaseSqlAdapter.buildWhereClause
buildWhereClause(ad, filter, params, prefix) ==
    IF ~Truthy(filter) \/ Len(Keys(filter)) = 0 THEN Query(<<>>, params, NoErr)
    ELSE LET step(acc, e) ==
                 LET key == e.k
                     value == e.v
                     column == prefix \o escapeIdentifier(ad, <<Nm(key)>>)
                 IN IF acc.err # NoErr THEN acc
                    ELSE IF key \in {"$and", "$or", "$nor"} /\ IsArray(value)
                    THEN AddCombined(acc, key,
                                     MapSubFilters(LAMBDA f, p: buildWhereClause(ad, f, p, prefix), value.items, acc.params))
                    ELSE IF value.t = "null" THEN AddCond(acc, column \o <<Kw(" IS NULL")>>)
                    ELSE IF ~IsObject(value) THEN AddCmp(ad, acc, column, " = ", serializeValue(value))
                    ELSE Absorb(acc, buildOperatorConditions(ad, column, value, acc.params))
         IN Conjoined(FoldSeq(step, Acc(<<>>, params), Entries(filter)))

\* A translateFilter that writes the WHERE keyword whether or not a condition
\* follows it; C5 tells it apart from the adapters' own.
BaseTranslateFilterAlwaysWhere(ad, filter, tableAlias) ==
    LET prefix == IF tableAlias # "" THEN escapeIdentifier(ad, <<Nm(tableAlias)>>) \o <<Kw(".")>> ELSE <<>>
    IN Given(buildWhereClause(ad, filter, <<>>, prefix),
             LAMBDA w: Query(<<Kw("WHERE ")>> \o w.sql, w.params, w.err))

\* BaseSqlAdapter.translateFilter and PostgresAdapter.translateFilter (the same code)
BaseTranslateFilter(ad, filter, tableAlias) ==
    LET prefix == IF tableAlias # "" THEN escapeIdentifier(ad, <<Nm(tableAlias)>>) \o <<Kw(".")>> ELSE <<>>
    IN Given(buildWhereClause(ad, filter, <<>>, prefix),
             LAMBDA w: Query(IF w.sql # <<>> THEN <<Kw("WHERE ")>> \o w.sql ELSE <<>>, w.params, w.err))

RECURSIVE MyTranslateFilter(_, _, _)
\* MySqlAdapter.translateFilter
MyTranslateFilter(ad, filter, tableAlias) ==
    IF ~Truthy(filter) \/ Len(Keys(filter)) = 0 THEN Query(<<>>, <<>>, NoErr)
    ELSE LET prefix == IF tableAlias # "" THEN escapeIdentifier(ad, <<Nm(tableAlias)>>) \o <<Kw(".")>> ELSE <<>>
             step(acc, e) ==
                 LET key == e.k
                     value == e.v
                     column == prefix \o <<Nm(key)>>
                 IN IF acc.err # NoErr THEN acc
                    ELSE IF key \in {"$and", "$or", "$nor"} /\ IsArray(value)
                    THEN AddCombined(acc, key,
                                     MapSubFilters(LAMBDA f, p: LET s == MyTranslateFilter(ad, f, tableAlias)
                                                                IN Query(s.sql, p \o s.params, s.err),
                                                   value.items, acc.params))
                    ELSE IF IsPlainObject(value)
                    THEN Given(buildOperatorConditions(ad, column, value, acc.params),
                               LAMBDA r: IF r.err # NoErr THEN Fail(acc, r.err)
                                         ELSE [acc EXCEPT !.conds = Append(@, r.sql), !.params = r.params])
                    ELSE AddCmp(ad, acc, escapeIdentifier(ad, column), " = ", value)
         IN Conjoined(FoldSeq(step, Acc(<<>>, <<>>), Entries(filter)))

----------------------------------------------------------------------------
(* The schema registry of SqliteAdapter *)

\* A FieldDefinition (base_adapter FieldDefinition)
FieldDefinition(type, isScalar, sqlType, isArray) ==
    [type |-> type, isScalar |-> isScalar, sqlType |-> sqlType, isArray |-> isArray]

\* getCollectionSchema(tableName) !== undefined
HasSchema(schemas, tableName) == tableName \in DOMAIN schemas
\* schema.fields.has(name) / schema.fields.get(name); fields keeps insertion order
HasField(schema, name) == \E i \in DOMAIN schema.fields : schema.fields[i].name = name
FieldDef(schema, name) ==
    schema.fields[CHOOSE i \in DOMAIN schema.fields : schema.fields[i].name = name].def

\* SqliteAdapter.isArrayField
isArrayField(schemas, tableName, fieldName) ==
    IF HasSchema(schemas, tableName) /\ HasField(schemas[tableName], fieldName)
    THEN FieldDef(schemas[tableName], fieldName).isArray
    ELSE fieldName \in {"tags", "skills", "favorites", "categories"}

----------------------------------------------------------------------------
(* Filter translator of SqliteAdapter *)

RECURSIVE preprocessFilter(_, _, _)
\* SqliteAdapter.preprocessFilter
preprocessFilter(schemas, filter, tableName) ==
    IF ~IsObject(filter) THEN filter
    ELSE Obj([i \in DOMAIN Entries(filter) |->
                LET e == Entries(filter)[i]
                IN IF e.v.t = "str" /\ isArrayField(schemas, tableName, e.k)
                   THEN Ent(e.k, Obj(<<Ent("$in", Arr(<<e.v>>))>>))
                   ELSE IF IsPlainObject(e.v)
                   THEN Ent(e.k, preprocessFilter(schemas, e.v, tableName))
                   ELSE e])

RECURSIVE NestedPathThrows(_)
\* Whether SqliteAdapter.handleNestedPathInFilter throws: it calls .map on the
\* value of $and / $or / $nor, which only an array has.
NestedPathThrows(filter) ==
    /\ IsObject(filter)
    /\ \E i \in DOMAIN Entries(filter) :
          LET e == Entries(filter)[i]
          IN \/ e.k \in {"$and", "$or", "$nor"} /\ ~IsArray(e.v)
             \/ e.k \in {"$and", "$or", "$nor"} /\ IsArray(e.v)
                  /\ \E j \in DOMAIN e.v.items : NestedPathThrows(e.v.items[j])
             \/ e.k = "$not" /\ NestedPathThrows(e.v)

RECURSIVE handleNestedPathInFilter(_)
\* SqliteAdapter.handleNestedPathInFilter, when it does not throw
handleNestedPathInFilter(filter) ==
    IF ~IsObject(filter) THEN filter
    ELSE Obj([i \in DOMAIN Entries(filter) |->
                LET e == Entries(filter)[i]
                IN IF e.k \in {"$and", "$or", "$nor"} /\ IsArray(e.v)
                   THEN Ent(e.k, Arr([j \in DOMAIN e.v.items |-> handleNestedPathInFilter(e.v.items[j])]))
                   ELSE IF e.k = "$not"
                   THEN Ent(e.k, handleNestedPathInFilter(e.v))
                   ELSE e])

\* json_extract(<column>, '$.<path>'): the path goes into the literal as given.
JsonExtract(ad, columnName, path) ==
    <<Kw("json_extract(")>> \o escapeIdentifier(ad, <<Nm(columnName)>>) \o
    <<Kw(", "), SLit(<<Kw("$."), Nm(path)>>), Kw(")")>>
\* json_extract(<column>, '$')
JsonExtractRoot(ad, columnName) ==
    <<Kw("json_extract(")>> \o escapeIdentifier(ad, <<Nm(columnName)>>) \o
    <<Kw(", "), SLit(<<Kw("$")>>), Kw(")")>>
\* EXISTS (SELECT 1 FROM json_each(<column>) WHERE json_extract(json_each.value, '$.<path>') = ?)
ExistsPath(ad, acc, columnName, path, value) ==
    [acc EXCEPT !.conds = Append(@, <<Kw("EXISTS (SELECT 1 FROM json_each(")>> \o
                                    escapeIdentifier(ad, <<Nm(columnName)>>) \o <<Kw(") WHERE ")>> \o
                                    ElemPath("json_each.value", path) \o
                                    <<Kw(" = "), getParameterPlaceholder(ad, Len(acc.params), value), Kw(")")>>),
                !.params = Append(@, value)]

\* SqliteAdapter.buildArrayContainsValueClause
buildArrayContainsValueClause(ad, acc, fieldName, value) ==
    [conds |-> Append(acc.conds, <<Kw("EXISTS (SELECT 1 FROM json_each(")>> \o
                                 escapeIdentifier(ad, <<Nm(fieldName)>>) \o
                                 <<Kw(") WHERE value = "), getParameterPlaceholder(ad, Len(acc.params), value), Kw(")")>>),
     params |-> Append(acc.params, value),
     err |-> acc.err]

\* The operator switch of buildSchemaBasedWhereClause for a dotted path into a
\* JSON column: only these operators have a case.
SchemaPathOpStep(ad, columnName, jsonPath, acc, o) ==
    CASE o.k = "$eq" -> AddCmp(ad, acc, JsonExtract(ad, columnName, jsonPath), " = ", o.v)
      [] o.k = "$ne" -> AddCmp(ad, acc, JsonExtract(ad, columnName, jsonPath), " != ", o.v)
      [] o.k = "$gt" -> AddCmp(ad, acc, JsonExtract(ad, columnName, jsonPath), " > ", o.v)
      [] o.k = "$gte" -> AddCmp(ad, acc, JsonExtract(ad, columnName, jsonPath), " >= ", o.v)
      [] o.k = "$lt" -> AddCmp(ad, acc, JsonExtract(ad, columnName, jsonPath), " < ", o.v)
      [] o.k = "$lte" -> AddCmp(ad, acc, JsonExtract(ad, columnName, jsonPath), " <= ", o.v)
      [] o.k = "$exists" ->
           AddCond(acc, JsonExtract(ad, columnName, jsonPath) \o
                        <<Kw(IF Truthy(o.v) THEN " IS NOT NULL" ELSE " IS NULL")>>)
      [] OTHER -> acc

\* The operator switch of buildSchemaBasedWhereClause for a JSON column.
SchemaJsonOpStep(ad, schemas, tableName, key, acc, o) ==
    LET value == o.v
    IN IF acc.err # NoErr THEN acc
       ELSE CASE o.k = "$eq" -> AddCmp(ad, acc, JsonExtractRoot(ad, key), " = ", value)
              [] o.k = "$ne" -> AddCmp(ad, acc, JsonExtractRoot(ad, key), " != ", value)
              [] o.k = "$in" /\ IsArray(value) ->
                   IF Len(value.items) = 0 THEN AddCond(acc, <<Kw("0 = 1")>>)
                   ELSE LET ors == FoldSeq(LAMBDA a, item:
                                               IF isArrayField(schemas, tableName, key)
                                               THEN [conds |-> Append(a.conds,
                                                         <<Kw("EXISTS (SELECT 1 FROM json_each(")>> \o
                                                         escapeIdentifier(ad, <<Nm(key)>>) \o
                                                         <<Kw(") WHERE json_each.value = "),
                                                           getParameterPlaceholder(ad, Len(a.params), item), Kw(")")>>),
                                                     params |-> Append(a.params, item), err |-> NoErr]
                                               ELSE AddCmp(ad, a, escapeIdentifier(ad, <<Nm(key)>>), " = ", item),
                                           Acc(<<>>, acc.params), value.items)
                        IN [acc EXCEPT !.conds = Append(@, <<Kw("(")>> \o Join(ors.conds, " OR ") \o <<Kw(")")>>),
                                       !.params = ors.params]
              [] o.k = "$nin" /\ IsArray(value) ->
                   IF Len(value.items) = 0 THEN AddCond(acc, <<Kw("1 = 1")>>)
                   ELSE LET nots == FoldSeq(LAMBDA a, item:
                                                [conds |-> Append(a.conds,
                                                     <<Kw("NOT (")>> \o escapeIdentifier(ad, <<Nm(key)>>) \o
                                                     <<Kw(" = "), getParameterPlaceholder(ad, Len(a.params), Json(item)), Kw(")")>>),
                                                 params |-> Append(a.params, Json(item)), err |-> NoErr],
                                            Acc(<<>>, acc.params), value.items)
                        IN [acc EXCEPT !.conds = Append(@, <<Kw("(")>> \o Join(nots.conds, " AND ") \o <<Kw(")")>>),
                                       !.params = nots.params]
              [] o.k = "$exists" ->
                   AddCond(acc, JsonExtractRoot(ad, key) \o <<Kw(IF Truthy(value) THEN " IS NOT NULL" ELSE " IS NULL")>>)
              [] o.k = "$elemMatch" /\ IsObject(value) ->
                   AddExists(acc, escapeIdentifier(ad, <<Nm(key)>>), ElemMatchConditions(ad, "value", value, acc.params))
              [] OTHER -> acc

RECURSIVE buildSchemaBasedWhereClause(_, _, _, _, _)
\* SqliteAdapter.buildSchemaBasedWhereClause
buildSchemaBasedWhereClause(ad, schemas, filter, schema, params) ==
    IF EntriesThrows(filter) THEN Throw("TypeError")
    ELSE
    LET tableName == schema.tableName
        sub(f, p) == buildSchemaBasedWhereClause(ad, schemas, f, schema, p)
        step(acc, e) ==
            LET key == e.k
                condition == e.v
                parts == Split(key)
                columnName == parts[1]
                jsonPath == JoinDot(Tail(parts))
            IN IF acc.err # NoErr THEN acc
               ELSE IF StartsWithDollar(key)
               THEN IF key \in {"$and", "$or", "$nor"} /\ IsArray(condition)
                    THEN AddCombined(acc, key, MapSubFilters(sub, condition.items, acc.params))
                    ELSE IF key = "$not" /\ IsObject(condition)
                    THEN Given(sub(condition, acc.params),
                               LAMBDA r: IF r.err # NoErr THEN Fail(acc, r.err)
                                         ELSE [acc EXCEPT !.conds = IF r.sql # <<>>
                                                                    THEN Append(@, <<Kw("NOT (")>> \o r.sql \o <<Kw(")")>>)
                                                                    ELSE @,
                                                          !.params = r.params])
                    ELSE acc
               ELSE IF IncludesDot(key)
               THEN IF HasField(schema, columnName) /\ ~FieldDef(schema, columnName).isScalar
                    THEN IF IsPlainObject(condition)
                         THEN FoldSeq(LAMBDA a, o: SchemaPathOpStep(ad, columnName, jsonPath, a, o), acc, Entries(condition))
                         ELSE IF isArrayField(schemas, tableName, columnName)
                         THEN ExistsPath(ad, acc, columnName, jsonPath, condition)
                         ELSE AddCmp(ad, acc, JsonExtract(ad, columnName, jsonPath), " = ", condition)
                    ELSE IF schema.hasExtraField
                    THEN AddCmp(ad, acc, JsonExtract(ad, "_extra", key), " = ", condition)
                    ELSE acc
               ELSE IF ~HasField(schema, key) THEN acc
               ELSE IF FieldDef(schema, key).isScalar
               THEN IF IsPlainObject(condition)
                    THEN Absorb(acc, buildOperatorConditions(ad, <<Nm(key)>>, condition, acc.params))
                    ELSE AddCmp(ad, acc, escapeIdentifier(ad, <<Nm(key)>>), " = ", condition)
               ELSE IF IsArray(condition)
               THEN IF Len(condition.items) = 1
                    THEN buildArrayContainsValueClause(ad, acc, key, condition.items[1])
                    ELSE Given(FoldSeq(LAMBDA a, item: buildArrayContainsValueClause(ad, a, key, item),
                                       Acc(<<>>, acc.params), condition.items),
                               LAMBDA subs: [acc EXCEPT !.conds = Append(@, <<Kw("(")>> \o Join(subs.conds, " OR ") \o <<Kw(")")>>),
                                                        !.params = subs.params])
               ELSE IF IsObject(condition)
               THEN FoldSeq(LAMBDA a, o: SchemaJsonOpStep(ad, schemas, tableName, key, a, o), acc, Entries(condition))
               ELSE acc
    IN Conjoined(FoldSeq(step, Acc(<<>>, params), Entries(filter)))

\* SqliteAdapter.addPathCondition
addPathCondition(ad, schemas, acc, rootField, jsonPath, value, tableName) ==
    IF isArrayField(schemas, tableName, rootField)
    THEN ExistsPath(ad, acc, rootField, jsonPath, value)
    ELSE AddCmp(ad, acc, JsonExtract(ad, rootField, jsonPath), " = ", value)

\* SqliteAdapter.buildWhereConditionsForFilter
buildWhereConditionsForFilter(ad, schemas, tableName, filter) ==
    LET qs(value) == [i \in DOMAIN value.items |-> <<Ph(0, value.items[i])>>]
        step(acc, e) ==
            LET key == e.k
                value == e.v
            IN IF acc.err # NoErr THEN acc
               ELSE IF StartsWithDollar(key)
               THEN Absorb(acc, buildOperatorConditions(ad, <<>>, value, acc.params))
               ELSE IF IsPlainObject(value)
               THEN IF \E i \in DOMAIN Keys(value) : StartsWithDollar(Keys(value)[i])
                    THEN FoldSeq(LAMBDA a, o:
                                     IF a.err # NoErr \/ ~StartsWithDollar(o.k) THEN a
                                     ELSE Absorb(a, buildOperatorConditions(ad, escapeIdentifier(ad, <<Nm(key)>>),
                                                                            Obj(<<Ent(o.k, o.v)>>), a.params)),
                                 acc, Entries(value))
                    ELSE Given(FoldSeq(LAMBDA a, n: AddCmp(ad, a, JsonExtract(ad, key, n.k), " = ", n.v),
                                       Acc(<<>>, acc.params), Entries(value)),
                               LAMBDA nested:
                                   [acc EXCEPT !.conds = IF Len(nested.conds) > 0
                                                         THEN Append(@, <<Kw("(")>> \o Join(nested.conds, " AND ") \o <<Kw(")")>>)
                                                         ELSE @,
                                               !.params = nested.params])
               ELSE IF IsArray(value)
               THEN IF isArrayField(schemas, tableName, key)
                    THEN [acc EXCEPT !.conds = Append(@, <<Kw("EXISTS (SELECT 1 FROM json_each(")>> \o
                                                         escapeIdentifier(ad, <<Nm(key)>>) \o
                                                         <<Kw(") WHERE json_each.value IN (")>> \o
                                                         Join(qs(value), ", ") \o <<Kw(")"), Kw(")")>>),
                                     !.params = @ \o value.items]
                    ELSE [acc EXCEPT !.conds = Append(@, escapeIdentifier(ad, <<Nm(key)>>) \o <<Kw(" IN (")>> \o
                                                         Join(qs(value), ", ") \o <<Kw(")")>>),
                                     !.params = @ \o value.items]
               ELSE IF IncludesDot(key)
               THEN addPathCondition(ad, schemas, acc, Split(key)[1], JoinDot(Tail(Split(key))), value, tableName)
               ELSE AddCmp(ad, acc, escapeIdentifier(ad, <<Nm(key)>>), " = ", value)
    IN FoldSeq(step, Acc(<<>>, <<>>), Entries(filter))

\* A double-quoted identifier token holding one plain name: "([^"]+)"
IsQuotedName(tok) ==
    tok.k = "q" /\ tok.d = "dquote" /\ Len(tok.inner) = 1 /\ tok.inner[1].k = "nm"
\* A match of /"([^"]+)" IN \(\?\)/ beginning at token i
InMatchAt(text, i) ==
    /\ i + 3 <= Len(text)
    /\ IsQuotedName(text[i])
    /\ text[i + 1] = Kw(" IN (")
    /\ text[i + 2].k = "ph" /\ text[i + 2].n = 0
    /\ text[i + 3].k = "kw" /\ text[i + 3] = Kw(")")
\* A match of /"([^"]+)" = \?/ beginning at token i
EqMatchAt(text, i) ==
    /\ i + 2 <= Len(text)
    /\ IsQuotedName(text[i])
    /\ text[i + 1] = Kw(" = ")
    /\ text[i + 2].k = "ph" /\ text[i + 2].n = 0
\* The token positions of the successive matches of a pattern, left to right.
MatchesOf(text, At(_, _)) ==
    SelectSeq([i \in 1..Len(text) |-> i], LAMBDA i: At(text, i))

\* before + replacement + after, by character offsets
Splice(text, matchStart, matchLen, replacement) ==
    TakeChars(text, matchStart) \o replacement \o DropChars(text, matchStart + matchLen)

\* SqliteAdapter.handleArrayFieldQuery
handleArrayFieldQuery(schemas, whereClause, params, tableName) ==
    IF IsBlank(whereClause) THEN Query(whereClause, params, NoErr)
    ELSE
    LET processedSql == whereClause
        processedParams == params
        fieldNameAt(i) == processedSql[i].inner[1].s
        inStep(acc, i) ==
            LET fieldName == fieldNameAt(i)
                matchStart == Width(SubSeq(processedSql, 1, i - 1))
                matchLen == Width(SubSeq(processedSql, i, i + 3))
                param == IF acc.paramIndex < Len(processedParams)
                         THEN processedParams[acc.paramIndex + 1] ELSE Undef
            IN IF isArrayField(schemas, tableName, fieldName) /\ acc.paramIndex < Len(processedParams)
                  /\ IsArray(param)
               THEN LET placeholders == Join([j \in DOMAIN param.items |-> <<Ph(0, param.items[j])>>], ", ")
                        replacement == <<Kw("EXISTS (SELECT 1 FROM json_each("), Q("raw", "dquote", <<Nm(fieldName)>>),
                                         Kw(") WHERE value IN (")>> \o placeholders \o <<Kw("))")>>
                    IN [sql |-> Splice(acc.sql, matchStart, matchLen, replacement),
                        newParams |-> acc.newParams \o param.items,
                        paramIndex |-> acc.paramIndex + 1]
               ELSE [acc EXCEPT !.newParams = Append(@, param), !.paramIndex = @ + 1]
        eqStep(sql, i) ==
            LET fieldName == fieldNameAt(i)
                matchStart == Width(SubSeq(processedSql, 1, i - 1))
                matchLen == Width(SubSeq(processedSql, i, i + 2))
                replacement == <<Kw("EXISTS (SELECT 1 FROM json_each("), Q("raw", "dquote", <<Nm(fieldName)>>),
                                 Kw(") WHERE value = "), Ph(0, processedSql[i + 2].for), Kw(")")>>
            IN IF isArrayField(schemas, tableName, fieldName)
               THEN Splice(sql, matchStart, matchLen, replacement)
               ELSE sql
    IN Given(FoldSeq(inStep, [sql |-> processedSql, newParams |-> <<>>, paramIndex |-> 0],
                     MatchesOf(processedSql, InMatchAt)),
             LAMBDA afterIn:
                 Given(FoldSeq(eqStep, afterIn.sql, MatchesOf(processedSql, EqMatchAt)),
                       LAMBDA sqlWithReplacements:
                           IF sqlWithReplacements # processedSql
                           THEN Query(sqlWithReplacements,
                                      IF Len(afterIn.newParams) > 0 THEN afterIn.newParams ELSE processedParams, NoErr)
                           ELSE Query(processedSql, processedParams, NoErr)))

\* SqliteAdapter.translateFilter
SqTranslateFilter(ad, en, schemas, filter, tableName) ==
    IF ~Truthy(filter) \/ Len(Keys(filter)) = 0 THEN Query(<<>>, <<>>, NoErr)
    ELSE
    Given(preprocessFilter(schemas, filter, tableName),
          LAMBDA processedFilter:
              IF NestedPathThrows(processedFilter) THEN Throw("TypeError")
              ELSE Given(IF HasSchema(schemas, tableName) /\ en
                         THEN buildSchemaBasedWhereClause(ad, schemas, handleNestedPathInFilter(processedFilter),
                                                          schemas[tableName], <<>>)
                         ELSE Conjoined(buildWhereConditionsForFilter(ad, schemas, tableName,
                                                                      handleNestedPathInFilter(processedFilter))),
                         LAMBDA built:
                             IF built.err # NoErr THEN Throw(built.err)
                             ELSE handleArrayFieldQuery(schemas,
                                                        IF ~IsBlank(built.sql) THEN <<Kw("WHERE ")>> \o built.sql
                                                        ELSE built.sql,
                                                        built.params, tableName)))

\* this.translateFilter(filter, second): the method of the adapter's own class.
\* The second argument is a table alias for PostgreSQL and MySQL and the table
\* name for SQLite.
translateFilter(ad, en, schemas, filter, second) ==
    Invoke(ad, "translateFilter", <<en, schemas, filter, second>>)

----------------------------------------------------------------------------
(* SET clause builders *)

\* if (update.<op>) for (... of Object.entries(update.<op>)) step
Section(acc, update, op, step(_, _)) ==
    IF Truthy(Get(update, op)) THEN FoldSeq(step, acc, Entries(Get(update, op))) ELSE acc

\* What buildSetClause returns once the sections are done: setClauses.join(', ').
SetClause(acc) == Query(Join(acc.conds, ", "), acc.params, acc.err)

\* <column> = json_set(<column>, <path>, ?)
JsonSet(ad, rootField, path, value) ==
    escapeIdentifier(ad, <<Nm(rootField)>>) \o <<Kw(" = json_set(")>> \o
    escapeIdentifier(ad, <<Nm(rootField)>>) \o <<Kw(", ")>> \o path \o <<Kw(", "), Ph(0, value), Kw(")")>>

SqSetStep(ad, acc, e) ==
    LET key == e.k
        value == e.v
        parts == Split(key)
        rootField == parts[1]
        arrayIndex == Num(ToNumber(parts[2]))
        indexPath(rest) == <<SLit(<<Kw("$[")>>), Kw(" || "), Ph(0, arrayIndex), Kw(" || "), SLit(rest)>>
    IN IF IncludesDot(key)
       THEN IF Len(parts) >= 2 /\ IsNumeric(parts[2])
            THEN IF Len(parts) = 2
                 THEN [acc EXCEPT !.params = @ \o <<arrayIndex, value>>,
                                  !.conds = Append(@, JsonSet(ad, rootField, indexPath(<<Kw("]")>>), value))]
                 ELSE [acc EXCEPT !.params = @ \o <<arrayIndex, value>>,
                                  !.conds = Append(@, JsonSet(ad, rootField,
                                                              indexPath(<<Kw("]."), Nm(JoinDot(SubSeq(parts, 3, Len(parts))))>>),
                                                              value))]
            ELSE [acc EXCEPT !.params = Append(@, value),
                             !.conds = Append(@, JsonSet(ad, rootField, <<SLit(<<Kw("$."), Nm(JoinDot(Tail(parts)))>>)>>, value))]
       ELSE [acc EXCEPT !.params = Append(@, value),
                        !.conds = Append(@, escapeIdentifier(ad, <<Nm(key)>>) \o <<Kw(" = "), Ph(0, value)>>)]

SqIncStep(ad, acc, e) ==
    LET col == escapeIdentifier(ad, <<Nm(e.k)>>)
    IN [acc EXCEPT !.params = Append(@, e.v),
                   !.conds = Append(@, col \o <<Kw(" = ")>> \o col \o <<Kw(" + "), Ph(0, e.v)>>)]

UnsetStep(ad, acc, e) ==
    AddCond(acc, escapeIdentifier(ad, <<Nm(e.k)>>) \o <<Kw(" = NULL")>>)

SqPushStep(ad, acc, e) ==
    LET col == escapeIdentifier(ad, <<Nm(e.k)>>)
        serializedValue == StringifyIfObject(e.v)
    IN IF StringifyThrows(e.v) THEN Fail(acc, "TypeError") ELSE
       [acc EXCEPT !.params = @ \o <<serializedValue, serializedValue>>,
                   !.conds = Append(@, col \o <<Kw(" = CASE WHEN ")>> \o col \o
                                       <<Kw(" IS NULL THEN json_array("), Ph(0, serializedValue),
                                         Kw(") ELSE json_insert(")>> \o col \o
                                       <<Kw(", "), SLit(<<Kw("$[#]")>>), Kw(", "), Ph(0, serializedValue), Kw(") END")>>)]

SqAddToSetStep(ad, acc, e) ==
    LET col == escapeIdentifier(ad, <<Nm(e.k)>>)
        serializedValue == StringifyIfObject(e.v)
    IN IF StringifyThrows(e.v) THEN Fail(acc, "TypeError") ELSE
       [acc EXCEPT !.params = @ \o <<serializedValue, serializedValue, serializedValue>>,
                   !.conds = Append(@, col \o <<Kw(" = CASE WHEN ")>> \o col \o
                                       <<Kw(" IS NULL THEN json_array("), Ph(0, serializedValue),
                                         Kw(") WHEN NOT EXISTS(SELECT 1 FROM json_each(")>> \o col \o
                                       <<Kw(") WHERE json_each.value = "), Ph(0, serializedValue),
                                         Kw(") THEN json_insert(")>> \o col \o
                                       <<Kw(", "), SLit(<<Kw("$[#]")>>), Kw(", "), Ph(0, serializedValue),
                                         Kw(") ELSE ")>> \o col \o <<Kw(" END")>>)]

SqPullStep(ad, acc, e) ==
    LET col == escapeIdentifier(ad, <<Nm(e.k)>>)
        serializedValue == StringifyIfObject(e.v)
    IN IF StringifyThrows(e.v) THEN Fail(acc, "TypeError") ELSE
       [acc EXCEPT !.params = Append(@, serializedValue),
                   !.conds = Append(@, col \o <<Kw(" = (SELECT json_group_array(value) FROM json_each(COALESCE(")>> \o col \o
                                       <<Kw(", json_array())) WHERE value != "), Ph(0, serializedValue), Kw(")")>>)]

\* SqliteAdapter.buildSetClause
SqBuildSetClause(ad, update, params) ==
    SetClause(FoldSeq(LAMBDA acc, op:
                          Section(acc, update, op,
                                  LAMBDA a, e: CASE op = "$set" -> SqSetStep(ad, a, e)
                                                 [] op = "$inc" -> SqIncStep(ad, a, e)
                                                 [] op = "$unset" -> UnsetStep(ad, a, e)
                                                 [] op = "$push" -> SqPushStep(ad, a, e)
                                                 [] op = "$addToSet" -> SqAddToSetStep(ad, a, e)
                                                 [] OTHER -> SqPullStep(ad, a, e)),
                      Acc(<<>>, params), <<"$set", "$inc", "$unset", "$push", "$addToSet", "$pull">>))

\* `${escapedField} = ${placeholder(params.length)}`; params.push(value)
SetStep(ad, acc, e) ==
    AddCmp(ad, acc, escapeIdentifier(ad, <<Nm(e.k)>>), " = ", e.v)
IncStep(ad, acc, e) ==
    LET col == escapeIdentifier(ad, <<Nm(e.k)>>)
    IN AddCmp(ad, acc, col \o <<Kw(" = ")>> \o col, " + ", e.v)

PgPushStep(ad, acc, e) ==
    LET col == escapeIdentifier(ad, <<Nm(e.k)>>)
        pv == Json(Arr(<<e.v>>))
    IN IF StringifyThrows(e.v) THEN Fail(acc, "TypeError") ELSE
       [acc EXCEPT !.conds = Append(@, col \o <<Kw(" = COALESCE(")>> \o col \o
                                       <<Kw(", "), SLit(<<Kw("[]")>>), Kw("::jsonb) || "),
                                         getParameterPlaceholder(ad, Len(acc.params), pv), Kw("::jsonb")>>),
                   !.params = Append(@, pv)]
PgPullStep(ad, acc, e) ==
    LET col == escapeIdentifier(ad, <<Nm(e.k)>>)
        pv == Json(e.v)
    IN IF StringifyThrows(e.v) THEN Fail(acc, "TypeError") ELSE
       [acc EXCEPT !.conds = Append(@, col \o <<Kw(" = (SELECT jsonb_agg(elem) FROM jsonb_array_elements(COALESCE(")>> \o col \o
                                       <<Kw(", "), SLit(<<Kw("[]")>>), Kw("::jsonb)) elem WHERE elem != "),
                                         getParameterPlaceholder(ad, Len(acc.params), pv), Kw("::jsonb)")>>),
                   !.params = Append(@, pv)]

\* PostgresAdapter.buildSetClause
PgBuildSetClause(ad, update, params) ==
    SetClause(FoldSeq(LAMBDA acc, op:
                          Section(acc, update, op,
                                  LAMBDA a, e: CASE op = "$set" -> SetStep(ad, a, e)
                                                 [] op = "$inc" -> IncStep(ad, a, e)
                                                 [] op = "$unset" -> UnsetStep(ad, a, e)
                                                 [] op = "$push" -> PgPushStep(ad, a, e)
                                                 [] OTHER -> PgPullStep(ad, a, e)),
                      Acc(<<>>, params), <<"$set", "$inc", "$unset", "$push", "$pull">>))

MyPushStep(ad, acc, e) ==
    LET col == escapeIdentifier(ad, <<Nm(e.k)>>)
    IN [acc EXCEPT !.conds = Append(@, col \o <<Kw(" = JSON_ARRAY_APPEND(COALESCE(")>> \o col \o
                                       <<Kw(", JSON_ARRAY()), "), SLit(<<Kw("$")>>), Kw(", "),
                                         getParameterPlaceholder(ad, Len(acc.params), e.v), Kw(")")>>),
                   !.params = Append(@, e.v)]
MyPullStep(ad, acc, e) ==
    LET col == escapeIdentifier(ad, <<Nm(e.k)>>)
        pv == Json(e.v)
    IN IF StringifyThrows(e.v) THEN Fail(acc, "TypeError") ELSE
       [acc EXCEPT !.conds = Append(@, col \o <<Kw(" = (SELECT JSON_ARRAYAGG(elem) FROM JSON_TABLE(COALESCE(")>> \o col \o
                                       <<Kw(", JSON_ARRAY()), "), SLit(<<Kw("$[*]")>>), Kw(" COLUMNS(elem JSON PATH "),
                                         SLit(<<Kw("$")>>), Kw(")) AS jt WHERE JSON_EXTRACT(elem, "), SLit(<<Kw("$")>>),
                                         Kw(") != "), getParameterPlaceholder(ad, Len(acc.params), pv), Kw(")")>>),
                   !.params = Append(@, pv)]

\* MySqlAdapter.buildSetClause
MyBuildSetClause(ad, update, params) ==
    SetClause(FoldSeq(LAMBDA acc, op:
                          Section(acc, update, op,
                                  LAMBDA a, e: CASE op = "$set" -> SetStep(ad, a, e)
                                                 [] op = "$inc" -> IncStep(ad, a, e)
                                                 [] op = "$unset" -> UnsetStep(ad, a, e)
                                                 [] op = "$push" -> MyPushStep(ad, a, e)
                                                 [] OTHER -> MyPullStep(ad, a, e)),
                      Acc(<<>>, params), <<"$set", "$inc", "$unset", "$push", "$pull">>))

\* this.buildSetClause: the method of the adapter's own class.
buildSetClause(ad, update, params) ==
    Invoke(ad, "buildSetClause", <<update, params>>)

----------------------------------------------------------------------------
(* Schema analysis of SqliteAdapter *)

\* A property of a JSON schema: its name, its type ("" when it has none) and the
\* properties nested under it.
Property(name, type, properties) == [name |-> name, type |-> type, properties |-> properties]

\* isScalar of analyzeSchema
IsScalarType(type) == type \in {"string", "number", "integer", "boolean", "date"}
\* getSqlType of analyzeSchema
getSqlType(type) ==
    CASE type = "number" -> "REAL"
      [] type \in {"integer", "boolean"} -> "INTEGER"
      [] OTHER -> "TEXT"

\* Map.set: a new key goes to the end, a known key keeps its place.
MapSet(fields, name, def) ==
    IF \E i \in DOMAIN fields : fields[i].name = name
    THEN [i \in DOMAIN fields |-> IF fields[i].name = name THEN [name |-> name, def |-> def] ELSE fields[i]]
    ELSE Append(fields, [name |-> name, def |-> def])

\* SqliteAdapter.analyzeSchema
analyzeSchema(tableName, schema) ==
    LET step(fields, property) ==
            IF property.name = "_extra" THEN fields
            ELSE LET own == MapSet(fields, property.name,
                                   FieldDefinition(IF property.type = "" THEN "object" ELSE property.type,
                                                   IsScalarType(property.type), getSqlType(property.type),
                                                   property.type = "array"))
                 IN FoldSeq(LAMBDA fs, subProperty:
                                MapSet(fs, property.name \o "." \o subProperty.name,
                                       FieldDefinition(IF subProperty.type = "" THEN "unknown" ELSE subProperty.type,
                                                       IsScalarType(subProperty.type), getSqlType(subProperty.type),
                                                       subProperty.type = "array")),
                            own, property.properties)
    IN [tableName |-> tableName,
        fields |-> FoldSeq(step, <<>>, schema.properties),
        hasExtraField |-> \E i \in DOMAIN schema.properties : schema.properties[i].name = "_extra"]

\* SqliteAdapter.translateSchema: the CREATE TABLE statement it returns
SqTranslateSchema(ad, tableName, schema) ==
    LET collectionSchema == analyzeSchema(tableName, schema)
        columns == [i \in DOMAIN collectionSchema.fields |->
                      escapeIdentifier(ad, <<Nm(collectionSchema.fields[i].name)>>) \o
                      <<Kw(" " \o collectionSchema.fields[i].def.sqlType)>>]
                   \o (IF collectionSchema.hasExtraField
                       THEN <<escapeIdentifier(ad, <<Kw("_extra")>>) \o <<Kw(" TEXT")>>>> ELSE <<>>)
    IN Query(<<Kw("CREATE TABLE IF NOT EXISTS ")>> \o escapeIdentifier(ad, <<Nm(tableName)>>) \o
             <<Kw(" (")>> \o Join(columns, ", ") \o <<Kw(")")>>, <<>>, NoErr)

\* The switch on propDef.type of PostgresAdapter.translateSchema
PgSqlType(type) ==
    CASE type = "integer" -> "INTEGER"
      [] type = "number" -> "NUMERIC"
      [] type = "boolean" -> "BOOLEAN"
      [] type \in {"object", "array"} -> "JSONB"
      [] OTHER -> "TEXT"

\* The switch on propDef.type of MySqlAdapter.translateSchema (no property of
\* the model carries a maxLength)
MySqlType(type) ==
    CASE type = "string" -> "TEXT"
      [] type = "integer" -> "INT"
      [] type = "number" -> "DOUBLE"
      [] type = "boolean" -> "BOOLEAN"
      [] type \in {"object", "array"} -> "JSON"
      [] OTHER -> "VARCHAR(255)"

\* The loop over the properties in the translateSchema of PostgresAdapter and of
\* MySqlAdapter (the same code but for the types): one column per property,
\* with PRIMARY KEY for _id and NOT NULL for the names listed in required.
ColumnDefinitions(ad, schema) ==
    [i \in DOMAIN schema.properties |->
        LET key == schema.properties[i].name
            sqlType == IF ad = "postgres" THEN PgSqlType(schema.properties[i].type)
                       ELSE MySqlType(schema.properties[i].type)
        IN escapeIdentifier(ad, <<Nm(key)>>) \o <<Kw(" " \o sqlType)>> \o
           (IF key = "_id" THEN <<Kw(" PRIMARY KEY")>> ELSE <<>>) \o
           (IF key \in Range(schema.required) THEN <<Kw(" NOT NULL")>> ELSE <<>>)]

\* PostgresAdapter.translateSchema
PgTranslateSchema(ad, tableName, schema) ==
    Query(<<Kw("CREATE TABLE IF NOT EXISTS ")>> \o escapeIdentifier(ad, <<Nm(tableName)>>) \o
          <<Kw(" (")>> \o Join(ColumnDefinitions(ad, schema), ", ") \o <<Kw(")")>>, <<>>, NoErr)

\* MySqlAdapter.translateSchema
MyTranslateSchema(ad, tableName, schema) ==
    Query(<<Kw("CREATE TABLE IF NOT EXISTS ")>> \o escapeIdentifier(ad, <<Nm(tableName)>>) \o
          <<Kw(" (")>> \o Join(ColumnDefinitions(ad, schema), ", ") \o
          <<Kw(") ENGINE=InnoDB DEFAULT CHARSET=utf8mb4 COLLATE=utf8mb4_unicode_ci")>>, <<>>, NoErr)

\* adapter.translateSchema: the statement the adapter's own class returns.
translateSchema(ad, tableName, schema) ==
    Invoke(ad, "translateSchema", <<tableName, schema>>)

----------------------------------------------------------------------------
(* Statement translators *)

\* BaseSqlAdapter.translateUpdate (SQLite inherits it)
BaseTranslateUpdate(ad, en, schemas, tableName, update, filter) ==
    LET set == buildSetClause(ad, update, <<>>)
        whereQuery == translateFilter(ad, en, schemas, filter, "")
    IN IF set.err # NoErr THEN Throw(set.err)
       ELSE IF whereQuery.err # NoErr THEN Throw(whereQuery.err)
       ELSE Query(<<Kw("UPDATE ")>> \o escapeIdentifier(ad, <<Nm(tableName)>>) \o <<Kw(" SET ")>> \o
                  set.sql \o <<Kw(" ")>> \o whereQuery.sql,
                  set.params \o whereQuery.params, NoErr)

\* PostgresAdapter.translateUpdate
PgTranslateUpdate(ad, en, schemas, tableName, update, filter) ==
    LET set == buildSetClause(ad, update, <<>>)
        whereQuery == translateFilter(ad, en, schemas, filter, "")
    IN IF set.err # NoErr THEN Throw(set.err)
       ELSE IF whereQuery.err # NoErr THEN Throw(whereQuery.err)
       ELSE Query(<<Kw("UPDATE ")>> \o escapeIdentifier(ad, <<Nm(tableName)>>) \o <<Kw(" SET ")>> \o set.sql \o
                  (IF whereQuery.sql # <<>> THEN <<Kw(" ")>> \o whereQuery.sql ELSE <<>>),
                  set.params \o whereQuery.params, NoErr)

\* MySqlAdapter.translateUpdate
MyTranslateUpdate(ad, en, schemas, tableName, update, filter) ==
    LET set == buildSetClause(ad, update, <<>>)
        whereQuery == translateFilter(ad, en, schemas, filter, "")
    IN IF set.err # NoErr THEN Throw(set.err)
       ELSE IF whereQuery.err # NoErr THEN Throw(whereQuery.err)
       ELSE Query(<<Kw("UPDATE ")>> \o escapeIdentifier(ad, <<Nm(tableName)>>) \o <<Kw(" SET ")>> \o set.sql \o
                  (IF whereQuery.sql # <<>> THEN <<Kw(" WHERE ")>> \o whereQuery.sql ELSE <<>>),
                  set.params \o whereQuery.params, NoErr)

\* this.translateUpdate: the method of the adapter's own class.
translateUpdate(ad, en, schemas, tableName, update, filter) ==
    Invoke(ad, "translateUpdate", <<en, schemas, tableName, update, filter>>)

\* BaseSqlAdapter.translateDelete (SQLite inherits it)
BaseTranslateDelete(ad, en, schemas, tableName, filter) ==
    LET whereQuery == translateFilter(ad, en, schemas, filter, "")
    IN IF whereQuery.err # NoErr THEN Throw(whereQuery.err)
       ELSE Query(<<Kw("DELETE FROM ")>> \o escapeIdentifier(ad, <<Nm(tableName)>>) \o <<Kw(" ")>> \o whereQuery.sql,
                  whereQuery.params, NoErr)

\* PostgresAdapter.translateDelete
PgTranslateDelete(ad, en, schemas, tableName, filter) ==
    LET whereQuery == translateFilter(ad, en, schemas, filter, "")
    IN IF whereQuery.err # NoErr THEN Throw(whereQuery.err)
       ELSE Query(<<Kw("DELETE FROM ")>> \o escapeIdentifier(ad, <<Nm(tableName)>>) \o
                  (IF whereQuery.sql # <<>> THEN <<Kw(" ")>> \o whereQuery.sql ELSE <<>>),
                  whereQuery.params, NoErr)

\* MySqlAdapter.translateDelete
MyTranslateDelete(ad, en, schemas, tableName, filter) ==
    LET whereQuery == translateFilter(ad, en, schemas, filter, "")
    IN IF whereQuery.err # NoErr THEN Throw(whereQuery.err)
       ELSE Query(<<Kw("DELETE FROM ")>> \o escapeIdentifier(ad, <<Nm(tableName)>>) \o
                  (IF whereQuery.sql # <<>> THEN <<Kw(" WHERE ")>> \o whereQuery.sql ELSE <<>>),
                  whereQuery.params, NoErr)

\* this.translateDelete: the method of the adapter's own class.
translateDelete(ad, en, schemas, tableName, filter) ==
    Invoke(ad, "translateDelete", <<en, schemas, tableName, filter>>)

\* The columns of an index: the fields in order, with their directions where
\* the dialect writes them
IndexColumns(ad, fields) ==
    Join([i \in DOMAIN Entries(fields) |->
             escapeIdentifier(ad, <<Nm(Entries(fields)[i].k)>>) \o
             (IF ad = "sqlite" THEN <<>>
              ELSE IF Entries(fields)[i].v = Num(1) THEN <<Kw(" ASC")>> ELSE <<Kw(" DESC")>>)],
         ", ")

\* SqliteAdapter.translateCreateIndex: the index is named indexName
SqTranslateCreateIndex(ad, tableName, indexName, fields, options) ==
    Query(<<Kw("CREATE"), Kw(" ")>> \o (IF Truthy(Get(options, "unique")) THEN <<Kw("UNIQUE")>> ELSE <<>>) \o
          <<Kw(" "), Kw("INDEX IF NOT EXISTS"), Kw(" ")>> \o escapeIdentifier(ad, indexName) \o <<Kw(" ON ")>> \o
          escapeIdentifier(ad, <<Nm(tableName)>>) \o <<Kw(" (")>> \o IndexColumns(ad, fields) \o <<Kw(")")>>,
          <<>>, NoErr)

\* PostgresAdapter.translateCreateIndex: the index is named idx_<tableName>_<indexName>
PgTranslateCreateIndex(ad, tableName, indexName, fields, options) ==
    Query(<<Kw("CREATE"), Kw(" ")>> \o (IF Truthy(Get(options, "unique")) THEN <<Kw("UNIQUE"), Kw(" ")>> ELSE <<>>) \o
          <<Kw("INDEX IF NOT EXISTS"), Kw(" ")>> \o
          escapeIdentifier(ad, <<Kw("idx_"), Nm(tableName), Kw("_")>> \o indexName) \o <<Kw(" ON ")>> \o
          escapeIdentifier(ad, <<Nm(tableName)>>) \o <<Kw(" (")>> \o IndexColumns(ad, fields) \o <<Kw(")")>>,
          <<>>, NoErr)

\* MySqlAdapter.translateCreateIndex: the same name, without IF NOT EXISTS
MyTranslateCreateIndex(ad, tableName, indexName, fields, options) ==
    Query(<<Kw("CREATE"), Kw(" ")>> \o (IF Truthy(Get(options, "unique")) THEN <<Kw("UNIQUE"), Kw(" ")>> ELSE <<>>) \o
          <<Kw("INDEX"), Kw(" ")>> \o
          escapeIdentifier(ad, <<Kw("idx_"), Nm(tableName), Kw("_")>> \o indexName) \o <<Kw(" ON ")>> \o
          escapeIdentifier(ad, <<Nm(tableName)>>) \o <<Kw(" (")>> \o IndexColumns(ad, fields) \o <<Kw(")")>>,
          <<>>, NoErr)

\* this.adapter.translateCreateIndex: the method of the adapter's own class.
translateCreateIndex(ad, tableName, indexName, fields, options) ==
    CASE ad = "postgres" -> PgTranslateCreateIndex(ad, tableName, indexName, fields, options)
      [] ad = "mysql" -> MyTranslateCreateIndex(ad, tableName, indexName, fields, options)
      [] OTHER -> SqTranslateCreateIndex(ad, tableName, indexName, fields, options)

\* JSON.stringify(v): undefined for undefined, a string otherwise
JsonStringify(v) == IF v.t = "undef" THEN Undef ELSE Json(v)

\* SqliteAdapter.processDocumentForInsert
SqProcessDocumentForInsert(en, schemas, doc, tableName) ==
    IF ~(HasSchema(schemas, tableName) /\ en)
    THEN Obj(<<Ent("_id", Get(doc, "_id")), Ent("data", JsonStringify(doc))>>)
    ELSE LET schema == schemas[tableName]
             extraFields == SelectSeq(Entries(doc), LAMBDA e: ~HasField(schema, e.k) /\ e.k # "_id")
             WithId(result) ==
                 IF ~Truthy(Get(Obj(result), "_id")) /\ Truthy(Get(doc, "_id"))
                 THEN IF HasKey(Obj(result), "_id")
                      THEN [i \in DOMAIN result |-> IF result[i].k = "_id" THEN Ent("_id", Get(doc, "_id")) ELSE result[i]]
                      ELSE Append(result, Ent("_id", Get(doc, "_id")))
                 ELSE result
             WithExtra(result) ==
                 Obj(IF schema.hasExtraField /\ Len(extraFields) > 0
                     THEN Append(result, Ent("_extra", Json(Obj(extraFields))))
                     ELSE result)
         IN WithExtra(WithId(SelectSeq([i \in DOMAIN Entries(doc) |->
                                           LET e == Entries(doc)[i]
                                           IN IF ~HasField(schema, e.k) THEN Ent("", Undef)
                                              ELSE IF FieldDef(schema, e.k).isScalar THEN e
                                              ELSE Ent(e.k, JsonStringify(e.v))],
                                       LAMBDA e: e.k # "")))

\* SqliteAdapter.translateInsert
SqTranslateInsert(ad, en, schemas, tableName, document) ==
    Given(SqProcessDocumentForInsert(en, schemas, document, tableName),
          LAMBDA processedDoc:
              IF ~HasSchema(schemas, tableName)
              THEN Query(<<Kw("INSERT INTO ")>> \o escapeIdentifier(ad, <<Nm(tableName)>>) \o
                         <<Kw(" ("), Q("raw", "dquote", <<Kw("_id")>>), Kw(", "), Q("raw", "dquote", <<Kw("data")>>),
                           Kw(") VALUES ("), Ph(0, Get(processedDoc, "_id")), Kw(", "), Ph(0, Get(processedDoc, "data")), Kw(")")>>,
                         <<Get(processedDoc, "_id"), Get(processedDoc, "data")>>, NoErr)
              ELSE Given(SelectSeq(Entries(processedDoc), LAMBDA e: e.v.t # "undef"),
                         LAMBDA defined:
                             Query(<<Kw("INSERT INTO ")>> \o escapeIdentifier(ad, <<Nm(tableName)>>) \o <<Kw(" (")>> \o
                                   Join([i \in DOMAIN defined |-> escapeIdentifier(ad, <<Nm(defined[i].k)>>)], ", ") \o
                                   <<Kw(") VALUES (")>> \o
                                   Join([i \in DOMAIN defined |-> <<getParameterPlaceholder(ad, i - 1, defined[i].v)>>], ", ") \o
                                   <<Kw(")")>>,
                                   [i \in DOMAIN defined |-> defined[i].v], NoErr)))

\* PostgresAdapter.translateInsert
PgTranslateInsert(ad, tableName, document) ==
    LET es == Entries(document)
        escapedKeys == [i \in DOMAIN es |-> escapeIdentifier(ad, <<Nm(es[i].k)>>)]
        valuePlaceholders == [i \in DOMAIN es |-> <<getParameterPlaceholder(ad, i - 1, es[i].v)>>]
    IN Query(<<Kw("INSERT INTO ")>> \o escapeIdentifier(ad, <<Nm(tableName)>>) \o <<Kw(" (")>> \o
             Join(escapedKeys, ", ") \o <<Kw(") VALUES (")>> \o Join(valuePlaceholders, ", ") \o <<Kw(") RETURNING *")>>,
             [i \in DOMAIN es |-> es[i].v], NoErr)

\* MySqlAdapter.translateInsert
MyTranslateInsert(ad, tableName, document) ==
    LET es == Entries(document)
        escapedKeys == [i \in DOMAIN es |-> escapeIdentifier(ad, <<Nm(es[i].k)>>)]
        valuePlaceholders == [i \in DOMAIN es |-> <<getParameterPlaceholder(ad, 0, es[i].v)>>]
    IN Query(<<Kw("INSERT INTO ")>> \o escapeIdentifier(ad, <<Nm(tableName)>>) \o <<Kw(" (")>> \o
             Join(escapedKeys, ", ") \o <<Kw(") VALUES (")>> \o Join(valuePlaceholders, ", ") \o <<Kw(")")>>,
             [i \in DOMAIN es |-> es[i].v], NoErr)

\* this.translateInsert: the method of the adapter's own class.
translateInsert(ad, en, schemas, tableName, document) ==
    Invoke(ad, "translateInsert", <<en, schemas, tableName, document>>)

\* ORDER BY parts: `${escapeIdentifier(field)} ${direction === 1 ? 'ASC' : 'DESC'}`
SortClauses(ad, sort, nestedPaths) ==
    [i \in DOMAIN Entries(sort) |->
        LET e == Entries(sort)[i]
            dir == IF e.v = Num(1) THEN "ASC" ELSE "DESC"
        IN IF nestedPaths /\ IncludesDot(e.k)
           THEN JsonExtract(ad, Split(e.k)[1], JoinDot(Tail(Split(e.k)))) \o <<Kw(" " \o dir)>>
           ELSE escapeIdentifier(ad, <<Nm(e.k)>>) \o <<Kw(" " \o dir)>>]

\* options.skip !== undefined && options.skip > 0
SkipPositive(options) == Get(options, "skip").t = "num" /\ Get(options, "skip").n > 0

\* whereClause.trim() is 'WHERE' or 'WHERE ()'
IsBareWhere(text) == text \in {<<Kw("WHERE ")>>, <<Kw("WHERE "), Kw("("), Kw(")")>>}

\* SqliteAdapter.translateFind
SqTranslateFind(ad, en, schemas, tableName, filter, options) ==
    LET orderParts == IF Truthy(Get(options, "sort")) THEN SortClauses(ad, Get(options, "sort"), TRUE) ELSE <<>>
        orderByClause == IF Len(orderParts) > 0 THEN <<Kw("ORDER BY ")>> \o Join(orderParts, ", ") ELSE <<>>
        limitClause == IF Get(options, "limit").t # "undef" THEN <<Kw("LIMIT "), VLit(Get(options, "limit"))>>
                       ELSE IF SkipPositive(options) THEN <<Kw("LIMIT 9223372036854775807")>>
                       ELSE <<>>
        offsetClause == IF SkipPositive(options) THEN <<Kw("OFFSET "), VLit(Get(options, "skip"))>> ELSE <<>>
        Select(processedQuery) ==
            LET whereClause == processedQuery.sql
            IN Query(<<Kw("SELECT * FROM ")>> \o escapeIdentifier(ad, <<Nm(tableName)>>) \o
                     (IF ~IsBlank(whereClause) /\ ~IsBareWhere(whereClause) THEN <<Kw(" ")>> \o whereClause ELSE <<>>) \o
                     (IF orderByClause # <<>> THEN <<Kw(" ")>> \o orderByClause ELSE <<>>) \o
                     (IF limitClause # <<>> THEN <<Kw(" ")>> \o limitClause ELSE <<>>) \o
                     (IF offsetClause # <<>> THEN <<Kw(" ")>> \o offsetClause ELSE <<>>),
                     processedQuery.params, NoErr)
    IN Given(preprocessFilter(schemas, filter, tableName),
             LAMBDA processedFilter:
                 IF NestedPathThrows(processedFilter) THEN Throw("TypeError")
                 ELSE Given(translateFilter(ad, en, schemas, handleNestedPathInFilter(processedFilter), tableName),
                            LAMBDA whereResult:
                                IF whereResult.err # NoErr THEN Throw(whereResult.err)
                                ELSE IF ~IsBlank(whereResult.sql)
                                THEN Select(handleArrayFieldQuery(schemas, whereResult.sql, whereResult.params, tableName))
                                ELSE Select(whereResult)))

\* PostgresAdapter.translateFind
PgTranslateFind(ad, en, schemas, tableName, filter, options) ==
    LET whereQuery == translateFilter(ad, en, schemas, filter, "")
        projection == Get(options, "projection")
        includeFields == SelectSeq(Entries(projection), LAMBDA e: e.v = Num(1))
        excludeFields == SelectSeq(Entries(projection), LAMBDA e: e.v = Num(0))
        kept == SelectSeq(Keys(filter), LAMBDA field: \A i \in DOMAIN excludeFields : excludeFields[i].k # field)
        selectClause ==
            IF Truthy(projection) /\ Len(includeFields) > 0
            THEN Join([i \in DOMAIN includeFields |-> escapeIdentifier(ad, <<Nm(includeFields[i].k)>>)], ", ")
            ELSE IF Truthy(projection) /\ Len(excludeFields) > 0
            THEN <<Kw("jsonb_build_object(")>> \o
                 Join([i \in DOMAIN kept |-> <<SLit(<<Nm(kept[i])>>), Kw(", ")>> \o escapeIdentifier(ad, <<Nm(kept[i])>>)], ", ") \o
                 <<Kw(")")>>
            ELSE <<Kw("*")>>
        sort == Get(options, "sort")
    IN IF whereQuery.err # NoErr THEN Throw(whereQuery.err)
       ELSE Query(<<Kw("SELECT ")>> \o selectClause \o <<Kw(" FROM ")>> \o escapeIdentifier(ad, <<Nm(tableName)>>) \o
                  (IF whereQuery.sql # <<>> THEN <<Kw(" ")>> \o whereQuery.sql ELSE <<>>) \o
                  (IF Truthy(sort) /\ Len(Keys(sort)) > 0
                   THEN <<Kw(" ORDER BY ")>> \o Join(SortClauses(ad, sort, FALSE), ", ") ELSE <<>>) \o
                  (IF Truthy(Get(options, "limit")) THEN <<Kw(" LIMIT "), VLit(Get(options, "limit"))>> ELSE <<>>) \o
                  (IF Truthy(Get(options, "skip")) THEN <<Kw(" OFFSET "), VLit(Get(options, "skip"))>> ELSE <<>>),
                  whereQuery.params, NoErr)

\* BaseSqlAdapter.translateFind (MySQL inherits it)
BaseTranslateFind(ad, en, schemas, tableName, filter, options) ==
    LET whereQuery == translateFilter(ad, en, schemas, filter, "")
        sort == Get(options, "sort")
        sortClauses == IF Truthy(sort) THEN SortClauses(ad, sort, FALSE) ELSE <<>>
        limit == Get(options, "limit")
        skip == Get(options, "skip")
        p1 == IF limit.t # "undef" THEN Append(whereQuery.params, limit) ELSE whereQuery.params
        p2 == IF skip.t # "undef" THEN Append(p1, skip) ELSE p1
    IN IF whereQuery.err # NoErr THEN Throw(whereQuery.err)
       ELSE Query(<<Kw("SELECT * FROM ")>> \o escapeIdentifier(ad, <<Nm(tableName)>>) \o <<Kw(" ")>> \o whereQuery.sql \o
                  (IF Len(sortClauses) > 0 THEN <<Kw(" ORDER BY ")>> \o Join(sortClauses, ", ") ELSE <<>>) \o
                  (IF limit.t # "undef"
                   THEN <<Kw(" LIMIT "), getParameterPlaceholder(ad, Len(whereQuery.params), limit)>> ELSE <<>>) \o
                  (IF skip.t # "undef"
                   THEN <<Kw(" OFFSET "), getParameterPlaceholder(ad, Len(p1), skip)>> ELSE <<>>),
                  p2, NoErr)

\* adapter.translateFind: the method of the adapter's own class.
translateFind(ad, en, schemas, tableName, filter, options) ==
    Invoke(ad, "translateFind", <<en, schemas, tableName, filter, options>>)

\* Method resolution: PostgresAdapter and MySqlAdapter override every method
\* modelled here but translateFind, which MySqlAdapter inherits; SqliteAdapter
\* inherits translateUpdate and translateDelete from BaseSqlAdapter.
Invoke(ad, method, args) ==
    CASE method = "buildOperatorConditions" ->
           (CASE ad = "postgres" -> PgBuildOperatorConditions(ad, args[1], args[2], args[3])
              [] ad = "mysql" -> MyBuildOperatorConditions(ad, args[1], args[2], args[3])
              [] OTHER -> SqBuildOperatorConditions(ad, args[1], args[2], args[3]))
      [] method = "translateFilter" ->
           (CASE ad = "postgres" -> BaseTranslateFilter(ad, args[3], args[4])
              [] ad = "mysql" -> MyTranslateFilter(ad, args[3], args[4])
              [] OTHER -> SqTranslateFilter(ad, args[1], args[2], args[3], args[4]))
      [] method = "buildSetClause" ->
           (CASE ad = "postgres" -> PgBuildSetClause(ad, args[1], args[2])
              [] ad = "mysql" -> MyBuildSetClause(ad, args[1], args[2])
              [] OTHER -> SqBuildSetClause(ad, args[1], args[2]))
      [] method = "translateUpdate" ->
           (CASE ad = "postgres" -> PgTranslateUpdate(ad, args[1], args[2], args[3], args[4], args[5])
              [] ad = "mysql" -> MyTranslateUpdate(ad, args[1], args[2], args[3], args[4], args[5])
              [] OTHER -> BaseTranslateUpdate(ad, args[1], args[2], args[3], args[4], args[5]))
      [] method = "translateDelete" ->
           (CASE ad = "postgres" -> PgTranslateDelete(ad, args[1], args[2], args[3], args[4])
              [] ad = "mysql" -> MyTranslateDelete(ad, args[1], args[2], args[3], args[4])
              [] OTHER -> BaseTranslateDelete(ad, args[1], args[2], args[3], args[4]))
      [] method = "translateInsert" ->
           (CASE ad = "postgres" -> PgTranslateInsert(ad, args[3], args[4])
              [] ad = "mysql" -> MyTranslateInsert(ad, args[3], args[4])
              [] OTHER -> SqTranslateInsert(ad, args[1], args[2], args[3], args[4]))
      [] method = "translateFind" ->
           (CASE ad = "postgres" -> PgTranslateFind(ad, args[1], args[2], args[3], args[4], args[5])
              [] ad = "mysql" -> BaseTranslateFind(ad, args[1], args[2], args[3], args[4], args[5])
              [] OTHER -> SqTranslateFind(ad, args[1], args[2], args[3], args[4], args[5]))
      [] method = "translateSchema" ->
           (CASE ad = "postgres" -> PgTranslateSchema(ad, args[1], args[2])
              [] ad = "mysql" -> MyTranslateSchema(ad, args[1], args[2])
              [] OTHER -> SqTranslateSchema(ad, args[1], args[2]))

\* The query Collection.countDocuments builds around translateFilter(filter)
CountDocuments(ad, en, schemas, name, filter) ==
    Given(translateFilter(ad, en, schemas, filter, ""),
          LAMBDA whereQuery:
              IF whereQuery.err # NoErr THEN Throw(whereQuery.err)
              ELSE Query(<<Kw("SELECT COUNT(*) as count FROM ")>> \o escapeIdentifier(ad, <<Nm(name)>>) \o
                         <<Kw(" ")>> \o whereQuery.sql, whereQuery.params, NoErr))

----------------------------------------------------------------------------
(* The result materializer of SqliteAdapter *)

\* JSON.parse of a string that holds JSON text; the other strings of the model
\* begin with neither '{' nor '[' and are kept.
ParseIfJson(v) == IF v.t = "json" THEN v.of ELSE v

\* A result the connection factory hands over unprocessed: the raw rows and the
\* names of the columns they were read from
RawResult(rawResult, columnNames) == [rawResult |-> rawResult, columnNames |-> columnNames]
\* A result in the expected format
RowsResult(rows, rowCount) == [rows |-> rows, rowCount |-> rowCount]

\* Math.min
Min(a, b) == IF a <= b THEN a ELSE b

\* data._id = id
WithId(entries, id) ==
    IF \E i \in DOMAIN entries : entries[i].k = "_id"
    THEN [i \in DOMAIN entries |-> IF entries[i].k = "_id" THEN Ent("_id", id) ELSE entries[i]]
    ELSE Append(entries, Ent("_id", id))

\* One turn of the loop over result.rawResult without a schema in use: a row of
\* the (_id, data) layout. JSON.parse of anything but the text of an object
\* ends in the catch block, either by itself or at the assignment of _id.
LegacyRawRow(rows, row) ==
    IF IsArray(row)
    THEN IF Len(row.items) >= 2
         THEN LET id == row.items[1]
                  dataStr == row.items[2]
              IN IF dataStr.t = "json" /\ IsPlainObject(dataStr.of)
                 THEN Append(rows, Obj(WithId(Entries(dataStr.of), id)))
                 ELSE Append(rows, Obj(<<Ent("_id", id), Ent("data", dataStr)>>))
         ELSE rows
    ELSE IF IsObject(row)
    THEN Append(rows, Obj(Entries(row)))
    ELSE rows

\* SqliteAdapter.cleanupDotNotationProperties, on the properties of a row
cleanupDotNotationProperties(entries) ==
    SelectSeq(entries,
              LAMBDA e: ~(/\ IncludesDot(e.k)
                          /\ \E i \in DOMAIN entries :
                                entries[i].k = Split(e.k)[1] /\ entries[i].v.t # "null"))

\* One turn of the loop over result.rawResult with the table's schema in use
SchemaRawRow(columnNames, rows, row) ==
    LET parsed(columnName, value) == IF columnName # "_id" THEN ParseIfJson(value) ELSE value
        rowObj == IF IsArray(row)
                  THEN [i \in 1..Min(Len(row.items), Len(columnNames)) |->
                          Ent(columnNames[i], parsed(columnNames[i], row.items[i]))]
                  ELSE IF IsObject(row)
                  THEN [i \in DOMAIN Entries(row) |-> Ent(Entries(row)[i].k, parsed(Entries(row)[i].k, Entries(row)[i].v))]
                  ELSE <<>>
    IN Append(rows, Obj(cleanupDotNotationProperties(rowObj)))

\* SqliteAdapter.processQueryResult
SqProcessQueryResult(en, schemas, tableName, result) ==
    IF "rows" \in DOMAIN result
    THEN result
    ELSE IF "rawResult" \in DOMAIN result
    THEN LET useSchemaBasedApproach == HasSchema(schemas, tableName) /\ en
             rows == IF ~useSchemaBasedApproach
                     THEN FoldSeq(LegacyRawRow, <<>>, result.rawResult)
                     ELSE FoldSeq(LAMBDA acc, row: SchemaRawRow(result.columnNames, acc, row), <<>>, result.rawResult)
         IN RowsResult(rows, Len(rows))
    ELSE RowsResult(<<>>, 0)

----------------------------------------------------------------------------
(* The inputs the calls are drawn from *)

Obj1(k, v) == Obj(<<Ent(k, v)>>)
Obj2(k1, v1, k2, v2) == Obj(<<Ent(k1, v1), Ent(k2, v2)>>)

\* Array literals of at most MaxArr elements
ArrayLiterals == {Arr(xs) : xs \in SeqsUpTo({Str("x"), Str("y")}, MaxArr)}

\* Operator maps for one field
OperatorMaps ==
    {Obj2("$gte", Num(25), "$lte", Num(35)), Obj2("$gt", Num(25), "$foo", Num(1)),
     Obj1("$eq", Str("x")), Obj1("$eq", Null), Obj1("$ne", Null), Obj1("$foo", Num(1)), Obj1("$regex", Str("x")),
     Obj1("$exists", Bool(TRUE)), Obj1("$size", Num(1)), Obj1("$like", Str("x")),
     Obj1("$elemMatch", Obj1("name", Str("x"))), Obj1("$elemMatch", Obj1("name", Obj1("$in", Num(1))))}
    \cup {Obj1(op, a) : op \in {"$in", "$nin", "$all"}, a \in ArrayLiterals}

FieldNames == {"name", "age", "tags", "addr.city", "nick"}
FieldValues == {Num(25), Str("x"), Null} \cup ArrayLiterals \cup OperatorMaps

\* Filters on one field
FieldFilters == {Obj1(k, v) : k \in FieldNames, v \in FieldValues}

\* Filters on several fields: distinct keys, at most MaxKeys of them
MixEntries ==
    {Ent("name", Obj1("$in", Arr(<<Str("x")>>))), Ent("tags", Num(25)), Ent("skills", Num(35)),
     Ent("age", Obj2("$gte", Num(25), "$lte", Num(35))), Ent("nick", Str("x"))}
MixFilters ==
    {Obj(es) : es \in {s \in SeqsUpTo(MixEntries, MaxKeys) :
                          Len(s) >= 2 /\ \A i, j \in DOMAIN s : i # j => s[i].k # s[j].k}}

\* Filters made of one combinator: over a list of at most MaxSubs sub-filters,
\* or over something that is no list
SubFilters == {EmptyFilter, Obj1("name", Str("x")), Obj1("age", Obj1("$gte", Num(25))), Obj1("tags", Str("y"))}
Combinators == {"$and", "$or", "$nor"}
CombinedFilters ==
    {Obj1(c, Arr(fs)) : c \in Combinators, fs \in SeqsUpTo(SubFilters, MaxSubs)}
    \cup {Obj1(c, v) : c \in Combinators, v \in {Str("x"), Obj1("name", Str("x")), Null}}
    \cup {Obj1("$or", Arr(<<Obj1("$and", Arr(<<Obj1("name", Str("x")), Obj1("age", Num(25))>>)), Obj1("nick", Null)>>)),
          Obj1("$not", Obj1("name", Str("x"))), Obj1("$foo", Num(1)),
          Obj2("name", Str("x"), "$or", Arr(<<Obj1("age", Num(25)), Obj1("age", Num(35))>>))}

\* Filters on a dotted path below an array field, by literal and by operator map
PathFilters ==
    {Obj1(k, v) : k \in {"tags.name", "skills.name"},
                  v \in {Str("x"), Obj1("$eq", Str("x")), Obj1("$gte", Num(25))}}

Filters == {EmptyFilter} \cup FieldFilters \cup MixFilters \cup CombinedFilters \cup PathFilters

\* The filters used with the statements that embed a WHERE clause
StatementFilters ==
    {EmptyFilter, Obj1("name", Str("x")), Obj1("age", Obj2("$gte", Num(25), "$lte", Num(35))),
     Obj1("tags", Str("x")), Obj1("addr.city", Str("x")), Obj1("nick", Obj1("$in", Arr(<<>>))),
     Obj2("tags", Num(25), "skills", Num(35)),
     Obj1("$or", Arr(<<Obj1("name", Str("x")), Obj1("age", Num(25))>>))}

Updates ==
    {Obj1("$set", Obj1("name", Str("x"))), Obj1("$set", Obj2("name", Str("x"), "age", Num(25))),
     Obj1("$set", Obj1("addr.city", Str("x"))), Obj1("$set", Obj1("tags.0", Str("x"))),
     Obj1("$set", Obj1("tags.0.name", Str("x"))), Obj1("$inc", Obj1("age", Num(1))),
     Obj1("$unset", Obj1("nick", Str(""))), Obj1("$push", Obj1("tags", Str("x"))),
     Obj1("$push", Obj1("tags", Obj1("name", Str("x")))), Obj1("$addToSet", Obj1("tags", Str("x"))),
     Obj1("$pull", Obj1("tags", Str("x"))), Obj1("$mul", Obj1("age", Num(2))),
     Obj2("$inc", Obj1("age", Num(1)), "$set", Obj1("name", Str("x")))}

Documents ==
    {Obj2("_id", Str("i"), "name", Str("x")),
     Obj(<<Ent("_id", Str("i")), Ent("name", Str("x")), Ent("tags", Arr(<<Str("x")>>)), Ent("nick", Str("y"))>>),
     Obj2("name", Str("x"), "age", Num(25)),
     Obj2("_id", Str("i"), "nick", Undef),
     EmptyFilter}

FindOptions ==
    {EmptyFilter, Obj1("limit", Num(5)), Obj1("skip", Num(5)), Obj2("limit", Num(5), "skip", Num(10)),
     Obj1("limit", Num(0)), Obj1("sort", Obj2("name", Num(1), "addr.city", Num(-1))),
     Obj1("projection", Obj1("name", Num(1))), Obj1("projection", Obj1("name", Num(0)))}

TableNames == {"users"}

\* Raw rows: array rows of zero to three values and object rows
RawRows ==
    {Arr(<<>>), Arr(<<Str("i")>>), Arr(<<Str("i"), Json(Obj1("name", Str("x")))>>),
     Arr(<<Str("i"), Str("x"), Num(25)>>),
     Obj2("_id", Str("i"), "name", Str("x")),
     Obj2("addr", Json(Obj1("city", Str("x"))), "addr.city", Str("x"))}
\* Results handed to processQueryResult: at most MaxRows raw rows with the
\* names of their columns, a result already in the expected format, and a
\* result of neither shape
RawResults ==
    {RawResult(rawResult, columnNames) : rawResult \in SeqsUpTo(RawRows, MaxRows),
                                         columnNames \in {<<"_id", "data">>, <<"_id", "name", "age">>}}
    \cup {RowsResult(<<Obj1("_id", Str("i"))>>, 1), [changes |-> 1]}

\* JSON schemas handed to translateSchema
JsonSchemas ==
    {[properties |-> <<Property("_id", "string", <<>>), Property("name", "string", <<>>),
                       Property("age", "integer", <<>>), Property("tags", "array", <<>>),
                       Property("addr", "object", <<Property("city", "string", <<>>)>>),
                       Property("_extra", "object", <<>>)>>,
      required |-> <<"_id", "name">>],
     [properties |-> <<Property("name", "string", <<>>), Property("tags", "array", <<>>),
                       Property("skills", "", <<>>)>>,
      required |-> <<>>]}
\* The same schemas with other lists of required names
RequiredLists == {<<>>, <<"name">>, <<"_id", "name">>, <<"name", "tags">>}
JsonSchemasRequiring == {[schema EXCEPT !.required = required] : schema \in JsonSchemas, required \in RequiredLists}

----------------------------------------------------------------------------
(* The state machine *)

\* A call of an adapter method. second is the table name (the table alias for
\* the translateFilter of PostgreSQL and MySQL); arg is the update, the document
\* or the find options, Null for the methods that take none.
Request(op, ad, second, filter, arg) ==
    [op |-> op, ad |-> ad, second |-> second, filter |-> filter, arg |-> arg]

Requests ==
    {Request("translateFilter", ad, "", f, Null) : ad \in Adapters, f \in Filters}
    \cup {Request("translateFilter", "sqlite", t, f, Null) : t \in TableNames, f \in Filters}
    \cup {Request("translateUpdate", ad, t, f, u) : ad \in Adapters, t \in TableNames, f \in StatementFilters, u \in Updates}
    \cup {Request("translateInsert", ad, t, EmptyFilter, d) : ad \in Adapters, t \in TableNames, d \in Documents}
    \cup {Request("translateDelete", ad, t, f, Null) : ad \in Adapters, t \in TableNames, f \in StatementFilters}
    \cup {Request("translateFind", ad, t, f, o) : ad \in Adapters, t \in TableNames, f \in StatementFilters, o \in FindOptions}
    \cup {Request("countDocuments", ad, t, f, Null) : ad \in Adapters, t \in TableNames, f \in StatementFilters}
    \cup {Request("translateSchema", ad, t, EmptyFilter, schema) : ad \in Adapters, t \in TableNames,
                                                                  schema \in JsonSchemasRequiring}
    \cup {Request("processQueryResult", "sqlite", t, EmptyFilter, result) : t \in TableNames, result \in RawResults}

NoSchemas == [t \in {} |-> FALSE]
\* No table created, no Collection method called
NoTable == [columns |-> <<>>, rows |-> <<>>, indexes |-> {}]
NoCalls == <<>>
\* No call made yet on the adapter as it is now
Idle == [done |-> FALSE, sql |-> <<>>, params |-> <<>>, err |-> NoErr, rows |-> <<>>, rowCount |-> 0]
Returned(query) == [Idle EXCEPT !.done = TRUE, !.sql = query.sql, !.params = query.params, !.err = query.err]
\* processQueryResult has returned
Materialized(result) == [Idle EXCEPT !.done = TRUE, !.rows = result.rows, !.rowCount = result.rowCount]

Init ==
    /\ isSchemaEnabled = FALSE
    /\ collectionSchemas = NoSchemas
    /\ request \in Requests
    /\ response = Idle
    /\ table = NoTable
    /\ calls = NoCalls

\* BaseSqlAdapter.setSchemaEnabled
SetSchemaEnabled(enabled) ==
    /\ isSchemaEnabled' = enabled
    /\ response' = Idle
    /\ UNCHANGED <<table, calls, collectionSchemas, request>>

\* SqliteAdapter.translateSchema: registers the analysed schema under the table name
TranslateSchema(tableName, schema) ==
    /\ collectionSchemas' = (tableName :> analyzeSchema(tableName, schema)) @@ collectionSchemas
    /\ response' = Idle
    /\ UNCHANGED <<table, calls, isSchemaEnabled, request>>

TranslateFilter ==
    /\ request.op = "translateFilter"
    /\ response' = Returned(translateFilter(request.ad, isSchemaEnabled, collectionSchemas, request.filter, request.second))
    /\ UNCHANGED <<table, calls, isSchemaEnabled, collectionSchemas, request>>

TranslateUpdate ==
    /\ request.op = "translateUpdate"
    /\ response' = Returned(translateUpdate(request.ad, isSchemaEnabled, collectionSchemas,
                                            request.second, request.arg, request.filter))
    /\ UNCHANGED <<table, calls, isSchemaEnabled, collectionSchemas, request>>

TranslateInsert ==
    /\ request.op = "translateInsert"
    /\ response' = Returned(translateInsert(request.ad, isSchemaEnabled, collectionSchemas, request.second, request.arg))
    /\ UNCHANGED <<table, calls, isSchemaEnabled, collectionSchemas, request>>

TranslateDelete ==
    /\ request.op = "translateDelete"
    /\ response' = Returned(translateDelete(request.ad, isSchemaEnabled, collectionSchemas, request.second, request.filter))
    /\ UNCHANGED <<table, calls, isSchemaEnabled, collectionSchemas, request>>

TranslateFind ==
    /\ request.op = "translateFind"
    /\ response' = Returned(translateFind(request.ad, isSchemaEnabled, collectionSchemas,
                                          request.second, request.filter, request.arg))
    /\ UNCHANGED <<table, calls, isSchemaEnabled, collectionSchemas, request>>

CountDocumentsCall ==
    /\ request.op = "countDocuments"
    /\ response' = Returned(CountDocuments(request.ad, isSchemaEnabled, collectionSchemas, request.second, request.filter))
    /\ UNCHANGED <<table, calls, isSchemaEnabled, collectionSchemas, request>>

\* adapter.translateSchema(name, schema) as the call under study: the CREATE
\* TABLE statement it returns; SqliteAdapter also registers the analysed schema.
TranslateSchemaCall ==
    /\ request.op = "translateSchema"
    /\ response' = Returned(translateSchema(request.ad, request.second, request.arg))
    /\ collectionSchemas' = IF request.ad = "sqlite"
                            THEN (request.second :> analyzeSchema(request.second, request.arg)) @@ collectionSchemas
                            ELSE collectionSchemas
    /\ UNCHANGED <<table, calls, isSchemaEnabled, request>>

\* adapter.processQueryResult(result, tableName) of SqliteAdapter
ProcessQueryResult ==
    /\ request.op = "processQueryResult"
    /\ response' = Materialized(SqProcessQueryResult(isSchemaEnabled, collectionSchemas, request.second, request.arg))
    /\ UNCHANGED <<table, calls, isSchemaEnabled, collectionSchemas, request>>

Next ==
    \/ \E enabled \in BOOLEAN : SetSchemaEnabled(enabled)
    \/ \E tableName \in TableNames, schema \in JsonSchemas : TranslateSchema(tableName, schema)
    \/ TranslateFilter
    \/ TranslateUpdate
    \/ TranslateInsert
    \/ TranslateDelete
    \/ TranslateFind
    \/ CountDocumentsCall
    \/ TranslateSchemaCall
    \/ ProcessQueryResult

Spec == Init /\ [][Next]_vars

----------------------------------------------------------------------------
(* What is read off a returned statement *)

RECURSIVE HasValue(_)
\* A caller-supplied value stands somewhere in the text.
HasValue(text) ==
    \E i \in DOMAIN text :
        \/ text[i].k = "val"
        \/ text[i].k \in {"q", "slit"} /\ HasValue(text[i].inner)
        \/ text[i].k = "frag" /\ HasValue(<<text[i].of>>)

RECURSIVE HasName(_)
\* A caller-supplied name stands somewhere in the text.
HasName(text) ==
    \E i \in DOMAIN text :
        \/ text[i].k = "nm"
        \/ text[i].k \in {"q", "slit"} /\ HasName(text[i].inner)
        \/ text[i].k = "frag" /\ HasName(<<text[i].of>>)

RECURSIVE NamesEscapedOnce(_, _)
\* Every caller-supplied name of the text stands inside exactly one pair of
\* quotes, put there by escapeIdentifier; depth counts the enclosing pairs.
NamesEscapedOnce(text, depth) ==
    \A i \in DOMAIN text :
        CASE text[i].k = "nm" -> depth = 1
          [] text[i].k = "q" ->
               IF text[i].by = "esc" THEN NamesEscapedOnce(text[i].inner, depth + 1)
               ELSE ~HasName(text[i].inner)
          [] text[i].k = "slit" -> ~HasName(text[i].inner)
          [] text[i].k = "frag" -> ~HasName(<<text[i].of>>)
          [] OTHER -> TRUE

\* The text with its placeholders' numbers left out
Unnumber(text) == [i \in DOMAIN text |-> IF text[i].k = "ph" THEN Ph(0, text[i].for) ELSE text[i]]
\* The text without the WHERE keyword and the grouping parentheses
Bare(text) == SelectSeq(text, LAMBDA tok: tok \notin {Kw("WHERE "), Kw("("), Kw(")")})
\* The text without a leading WHERE keyword
StripWhere(text) == IF text # <<>> /\ Head(text) = Kw("WHERE ") THEN Tail(text) ELSE text
\* The statement restricts the rows it reads
HasWhere(text) == \E i \in DOMAIN text : text[i] \in {Kw("WHERE "), Kw(" WHERE ")}

FilterCall == response.done /\ request.op = "translateFilter"

----------------------------------------------------------------------------
(* Properties *)

\* C1: no caller-supplied value (a filter literal, an update value, a document
\* field value, a limit or a skip) appears in the SQL text of any adapter's
\* translateFilter, translateUpdate, translateInsert, translateDelete or
\* translateFind; values travel in params only.
C1_NoValueInSqlText ==
    response.done /\ request.op # "countDocuments" => ~HasValue(response.sql)

\* C2: for the positional dialects (SQLite, MySQL) the statement returned by
\* translateFilter, translateUpdate, translateInsert and translateDelete has as
\* many "?" placeholders as params, and the i-th placeholder stands for the
\* i-th param.
C2_PositionalPlaceholdersMatchParams ==
    /\ response.done /\ response.err = NoErr
    /\ request.ad \in {"sqlite", "mysql"}
    /\ request.op \in {"translateFilter", "translateUpdate", "translateInsert", "translateDelete"}
    => LET phs == Placeholders(response.sql)
       IN /\ Len(phs) = Len(response.params)
          /\ \A i \in DOMAIN phs : phs[i].for = response.params[i]

\* C3: for PostgreSQL a placeholder $N stands for the N-th param (1-based); in
\* one UPDATE the placeholders of SET and WHERE never reuse a number; an INSERT
\* numbers its placeholders 1..|params| without gaps.
C3_NumberedPlaceholdersMatchParams ==
    response.done /\ response.err = NoErr /\ request.ad = "postgres"
    => LET phs == Placeholders(response.sql)
       IN /\ \A i \in DOMAIN phs :
                /\ phs[i].n \in 1..Len(response.params)
                /\ response.params[phs[i].n] = phs[i].for
          /\ request.op = "translateUpdate" => \A i, j \in DOMAIN phs : i # j => phs[i].n # phs[j].n
          /\ request.op = "translateInsert" =>
                [i \in DOMAIN phs |-> phs[i].n] = [i \in 1..Len(response.params) |-> i]

\* C4: every caller-supplied name interpolated into the SQL text went through
\* escapeIdentifier exactly once: none stands raw (as in a '$.path' literal or
\* between hand-written quotes) and none is escaped twice.
C4_NamesEscapedExactlyOnce ==
    response.done /\ response.err = NoErr => NamesEscapedOnce(response.sql, 0)

\* C5: translateFilter({}) returns empty sql and empty params for every
\* adapter, so find({}) and countDocuments({}) read all rows: their statements
\* carry no WHERE clause.
C5_EmptyFilterSelectsAll ==
    response.done /\ request.filter = EmptyFilter
    => /\ request.op = "translateFilter" => response.sql = <<>> /\ response.params = <<>> /\ response.err = NoErr
       /\ request.op \in {"translateFind", "countDocuments"} => response.err = NoErr /\ ~HasWhere(response.sql)

\* A translateFilter({}) call has returned, on the SQLite adapter with the
\* schema path in use.
C5_Witness ==
    /\ FilterCall /\ request.filter = EmptyFilter
    /\ request.ad = "sqlite" /\ isSchemaEnabled /\ HasSchema(collectionSchemas, request.second)

\* C6: {field: {$in: []}} translates to a condition no row satisfies and
\* {field: {$nin: []}} to one every row satisfies, with no param pushed, on
\* every adapter and on both the schema-based and the schema-less path.
C6_EmptyInAndNin ==
    FilterCall
    => \A k \in FieldNames :
          /\ request.filter = Obj1(k, Obj1("$in", Arr(<<>>)))
             => /\ response.err = NoErr /\ response.params = <<>>
                /\ Bare(response.sql) \in {<<Kw("FALSE")>>, <<Kw("0 = 1")>>}
          /\ request.filter = Obj1(k, Obj1("$nin", Arr(<<>>)))
             => /\ response.err = NoErr /\ response.params = <<>>
                /\ Bare(response.sql) \in {<<>>, <<Kw("TRUE")>>, <<Kw("1 = 1")>>}

\* What C7 expects of {<combinator>: [f1, ..., fn]}: the translations of the
\* sub-filters that are not empty, joined inside parentheses, and their params
\* in order.
CombinedExpected(ad, en, schemas, second, key, items) ==
    LET subs == [i \in DOMAIN items |-> translateFilter(ad, en, schemas, items[i], second)]
        bodies == SelectSeq([i \in DOMAIN subs |-> StripWhere(subs[i].sql)], LAMBDA b: b # <<>>)
    IN Query(IF bodies = <<>> THEN <<>>
             ELSE (IF ad = "mysql" THEN <<>> ELSE <<Kw("WHERE ")>>) \o Combined(key, bodies),
             FoldSeq(LAMBDA ps, sub: ps \o sub.params, <<>>, subs),
             IF \E i \in DOMAIN subs : subs[i].err # NoErr THEN "sub-filter" ELSE NoErr)

\* C7: $and / $or / $nor over a list of sub-filters translate to the
\* parenthesised join of the sub-filters' non-empty translations, with the
\* params in order; a combinator is never dropped.
C7_CombinatorsJoinSubFilters ==
    FilterCall
    => \A c \in Combinators :
          (Len(request.filter.e) = 1 /\ request.filter.e[1].k = c /\ IsArray(request.filter.e[1].v))
          => LET expected == CombinedExpected(request.ad, isSchemaEnabled, collectionSchemas, request.second,
                                              c, request.filter.e[1].v.items)
             IN expected.err = NoErr
                => /\ response.err = NoErr
                   /\ Unnumber(response.sql) = Unnumber(expected.sql)
                   /\ response.params = expected.params

\* The filter gives some field an operator map with an operator no adapter knows.
HasUnknownOperator(filter) ==
    \E i \in DOMAIN filter.e :
        /\ ~StartsWithDollar(filter.e[i].k)
        /\ IsPlainObject(filter.e[i].v)
        /\ HasKey(filter.e[i].v, "$foo")

\* C8: an operator map holding an unrecognised $-operator makes translateFilter
\* fail; the operator is never silently dropped.
C8_UnknownOperatorFails ==
    FilterCall /\ HasUnknownOperator(request.filter) => response.err # NoErr

\* C9: $and / $or / $nor with a value that is no list makes translateFilter
\* fail; it is not translated as a column named like the combinator.
C9_CombinatorNeedsList ==
    FilterCall /\ (\E i \in DOMAIN request.filter.e :
                      request.filter.e[i].k \in Combinators /\ ~IsArray(request.filter.e[i].v))
    => response.err # NoErr

\* C10: {age: {$gte: 25, $lte: 35}} translates, on every adapter, to the two
\* comparisons in the map's order joined by AND, on the column escaped once,
\* with params [25, 35].
C10_RangeOnOneField ==
    FilterCall /\ request.filter = Obj1("age", Obj2("$gte", Num(25), "$lte", Num(35)))
    => LET column == escapeIdentifier(request.ad, <<Nm("age")>>)
       IN /\ response.err = NoErr
          /\ response.params = <<Num(25), Num(35)>>
          /\ Unnumber(Bare(response.sql)) =
                column \o <<Kw(" >= "), Ph(0, Num(25)), Kw(" AND ")>> \o column \o <<Kw(" <= "), Ph(0, Num(35))>>

\* C11: on every adapter {field: {$eq: null}} translates to <column> IS NULL
\* and {field: {$ne: null}} to <column> IS NOT NULL, with no param pushed; a
\* null is never bound to a comparison.
C11_NullComparesWithIs ==
    FilterCall
    => \A k \in FieldNames :
          /\ request.filter = Obj1(k, Obj1("$eq", Null))
             => /\ response.err = NoErr /\ response.params = <<>>
                /\ Kw(" IS NULL") \in Range(response.sql)
          /\ request.filter = Obj1(k, Obj1("$ne", Null))
             => /\ response.err = NoErr /\ response.params = <<>>
                /\ Kw(" IS NOT NULL") \in Range(response.sql)

\* The column definition beginning at token j carries NOT NULL.
ColumnIsNotNull(text, j) ==
    \/ j + 2 <= Len(text) /\ text[j + 2] = Kw(" NOT NULL")
    \/ j + 3 <= Len(text) /\ text[j + 2] = Kw(" PRIMARY KEY") /\ text[j + 3] = Kw(" NOT NULL")

\* C15: the CREATE TABLE of translateSchema has, on every adapter, a column for
\* each declared property, NOT NULL exactly when the property is listed in
\* required.
C15_RequiredColumnsAreNotNull ==
    response.done /\ request.op = "translateSchema"
    => /\ response.err = NoErr
       /\ \A i \in DOMAIN request.arg.properties :
             LET key == request.arg.properties[i].name
                 column == escapeIdentifier(request.ad, <<Nm(key)>>)[1]
             IN key # "_extra"
                => /\ column \in Range(response.sql)
                   /\ \A j \in DOMAIN response.sql :
                         response.sql[j] = column /\ j > 2
                         => (ColumnIsNotNull(response.sql, j) <=> key \in Range(request.arg.required))

----------------------------------------------------------------------------
(* The database engine behind connection.query *)

\* A placeholder of the statement with the param bound to it.
Arg(v) == [k |-> "arg", v |-> v]

\* The params do not fit the placeholders: a numbered statement needs exactly
\* the params $1..$n it names, a positional one as many params as it has `?`.
BindFails(sql, params) ==
    LET phs == Placeholders(sql)
    IN IF \E i \in DOMAIN phs : phs[i].n > 0
       THEN {phs[i].n : i \in DOMAIN phs} # 1..Len(params)
       ELSE Len(phs) # Len(params)

\* The statement with every placeholder replaced by the param bound to it: $n
\* is bound to params[n - 1], the k-th `?` in text order to params[k - 1].
Bound(sql, params) ==
    [i \in DOMAIN sql |->
        IF sql[i].k # "ph" THEN sql[i]
        ELSE Arg(params[IF sql[i].n > 0 THEN sql[i].n
                        ELSE Cardinality({j \in 1..i : sql[j].k = "ph"})])]

\* White space between the words of a statement is not significant.
Lex(text) == SelectSeq(text, LAMBDA tok: tok # Kw(" "))
\* The words of a text: its keywords, and the kind of every other token.
Words(text) == [i \in DOMAIN text |-> IF text[i].k = "kw" THEN text[i].s ELSE text[i].k]
IsWhere(tok) == tok \in {Kw("WHERE "), Kw(" WHERE ")}
IsLimitOne(tok) == tok = Kw(" LIMIT 1")

\* The column a quoted identifier names ("" when it is no plain name).
ColumnOf(tok) ==
    IF tok.k = "q" /\ Len(tok.inner) = 1 /\ tok.inner[1].k \in {"nm", "kw"} THEN tok.inner[1].s ELSE ""
ColumnNames(tbl) == {tbl.columns[i].name : i \in DOMAIN tbl.columns}
\* The values bound in a text, in text order.
ArgsOf(text) == [i \in DOMAIN SelectSeq(text, LAMBDA tok: tok.k = "arg") |->
                    SelectSeq(text, LAMBDA tok: tok.k = "arg")[i].v]

\* The elements of a stored JSON array (none for NULL).
Elements(stored) ==
    IF stored.t = "json" /\ stored.of.t = "arr" THEN stored.of.items
    ELSE IF stored.t = "arr" THEN stored.items
    ELSE <<>>

\* The pieces of a text between the tokens sep.
RECURSIVE SplitOn(_, _)
SplitOn(text, sep) ==
    IF \A i \in DOMAIN text : text[i] # sep THEN <<text>>
    ELSE LET i == CHOOSE i \in DOMAIN text : text[i] = sep /\ \A j \in 1..(i - 1) : text[j] # sep
         IN <<SubSeq(text, 1, i - 1)>> \o SplitOn(SubSeq(text, i + 1, Len(text)), sep)

\* The table after CREATE TABLE: a column per definition, with its constraints.
CreateTable(sql) ==
    [columns |-> [i \in DOMAIN SplitOn(SubSeq(sql, 4, Len(sql) - 1), Kw(", ")) |->
                     LET definition == SplitOn(SubSeq(sql, 4, Len(sql) - 1), Kw(", "))[i]
                     IN [name |-> ColumnOf(definition[1]),
                         primaryKey |-> Kw(" PRIMARY KEY") \in Range(definition),
                         notNull |-> Kw(" NOT NULL") \in Range(definition)]],
     rows |-> <<>>,
     indexes |-> {}]

(* WHERE *)

Unwrap(cond) ==
    IF Len(cond) >= 2 /\ cond[1] = Kw("(") /\ cond[Len(cond)] = Kw(")")
    THEN SubSeq(cond, 2, Len(cond) - 1) ELSE cond

\* The comparisons the engine is modelled for: <column> = v, <column> IN (v, ..)
\* and EXISTS (SELECT 1 FROM json_each(<column>) WHERE json_each.value = v).
AtomKind(atom) ==
    CASE Words(atom) = <<"q", " = ", "arg">> -> "eq"
      [] /\ Len(atom) >= 4 /\ Len(atom) % 2 = 0
         /\ Words(atom)[1] = "q" /\ Words(atom)[2] = " IN (" /\ Words(atom)[Len(atom)] = ")"
         /\ \A i \in 3..(Len(atom) - 1) : Words(atom)[i] = (IF i % 2 = 1 THEN "arg" ELSE ", ") -> "in"
      [] Words(atom) = <<"EXISTS (SELECT 1 FROM json_each(", "q", ") WHERE json_each.value = ", "arg", ")">> -> "each"
      [] OTHER -> ""
AtomColumn(atom) == IF AtomKind(atom) = "each" THEN ColumnOf(atom[2]) ELSE ColumnOf(atom[1])
\* A comparison with NULL on either side is never true.
AtomHolds(atom, row) ==
    LET stored == row[AtomColumn(atom)]
        args == Range(ArgsOf(atom)) \ {Null, Undef}
    IN IF AtomKind(atom) = "each" THEN \E i \in DOMAIN Elements(stored) : Elements(stored)[i] \in args
       ELSE stored # Null /\ stored \in args

Disjuncts(cond) == SplitOn(Unwrap(cond), Kw(" OR "))
CondError(tbl, cond) ==
    IF \E i \in DOMAIN Disjuncts(cond) : AtomKind(Disjuncts(cond)[i]) = "" THEN "syntax error"
    ELSE IF \E i \in DOMAIN Disjuncts(cond) : AtomColumn(Disjuncts(cond)[i]) \notin ColumnNames(tbl) THEN "no such column"
    ELSE NoErr
Holds(cond, row) == \E i \in DOMAIN Disjuncts(cond) : AtomHolds(Disjuncts(cond)[i], row)

\* What follows the table name in SELECT and in UPDATE: nothing, or WHERE and
\* a condition, then possibly LIMIT 1.
HasCond(tail) == tail # <<>> /\ IsWhere(tail[1])
CondOf(tail) == SelectSeq(Tail(tail), LAMBDA tok: ~IsLimitOne(tok))
TailError(tbl, tail) ==
    IF SelectSeq(tail, LAMBDA tok: ~IsLimitOne(tok)) = <<>> THEN NoErr
    ELSE IF ~HasCond(tail) THEN "syntax error"
    ELSE CondError(tbl, CondOf(tail))
Selected(tbl, tail) ==
    {i \in DOMAIN tbl.rows : HasCond(tail) => Holds(CondOf(tail), tbl.rows[i])}

(* SET *)

SetKinds == {"value", "plus", "append", "appendIfAbsent", "concat", "arrayAppend"}
SetShape(kind) ==
    CASE kind = "value" -> <<"q", " = ", "arg">>
      [] kind = "plus" -> <<"q", " = ", "q", " + ", "arg">>
      [] kind = "append" ->
            <<"q", " = CASE WHEN ", "q", " IS NULL THEN json_array(", "arg", ") ELSE json_insert(", "q",
              ", ", "slit", ", ", "arg", ") END">>
      [] kind = "appendIfAbsent" ->
            <<"q", " = CASE WHEN ", "q", " IS NULL THEN json_array(", "arg",
              ") WHEN NOT EXISTS(SELECT 1 FROM json_each(", "q", ") WHERE json_each.value = ", "arg",
              ") THEN json_insert(", "q", ", ", "slit", ", ", "arg", ") ELSE ", "q", " END">>
      [] kind = "concat" -> <<"q", " = COALESCE(", "q", ", ", "slit", "::jsonb) || ", "arg", "::jsonb">>
      [] OTHER -> <<"q", " = JSON_ARRAY_APPEND(COALESCE(", "q", ", JSON_ARRAY()), ", "slit", ", ", "arg", ")">>

\* The assignments of a SET list; one of kind "" where the list is malformed.
RECURSIVE Assignments(_)
Assignments(text) ==
    IF text = <<>> THEN <<>>
    ELSE LET fits == {kind \in SetKinds :
                         /\ Len(SetShape(kind)) <= Len(text)
                         /\ SubSeq(Words(text), 1, Len(SetShape(kind))) = SetShape(kind)
                         /\ Len(text) > Len(SetShape(kind)) => text[Len(SetShape(kind)) + 1] = Kw(", ")}
         IN IF fits = {} THEN <<[kind |-> "", column |-> "", args |-> <<>>]>>
            ELSE LET n == Len(SetShape(CHOOSE kind \in fits : TRUE))
                 IN <<[kind |-> CHOOSE kind \in fits : TRUE,
                       column |-> IF \A i \in 1..n : text[i].k = "q" => text[i] = text[1]
                                  THEN ColumnOf(text[1]) ELSE "",
                       args |-> ArgsOf(SubSeq(text, 1, n))]>>
                    \o Assignments(SubSeq(text, n + 2, Len(text)))

SetError(tbl, list) ==
    IF list = <<>> \/ \E i \in DOMAIN list : list[i].kind = "" THEN "syntax error"
    ELSE IF \E i \in DOMAIN list : list[i].column \notin ColumnNames(tbl) THEN "no such column"
    ELSE NoErr

\* The value an assignment gives its column in a row.
Assigned(a, row) ==
    LET old == row[a.column]
    IN CASE a.kind = "value" -> IF a.args[1] = Undef THEN Null ELSE a.args[1]
         [] a.kind = "plus" -> IF old = Null \/ a.args[1] = Null THEN Null ELSE Num(old.n + a.args[1].n)
         [] a.kind = "append" -> IF old = Null THEN Json(Arr(<<a.args[1]>>))
                                 ELSE Json(Arr(Append(Elements(old), a.args[2])))
         [] a.kind = "appendIfAbsent" ->
               IF old = Null THEN Json(Arr(<<a.args[1]>>))
               ELSE IF \A i \in DOMAIN Elements(old) : Elements(old)[i] # a.args[2]
               THEN Json(Arr(Append(Elements(old), a.args[3])))
               ELSE old
         [] a.kind = "concat" -> Arr(Elements(old) \o Elements(a.args[1]))
         [] OTHER -> Arr(Append(Elements(old), a.args[1]))

\* Every assignment reads the row as it was before the statement.
Updated(row, list) ==
    [c \in DOMAIN row |->
        IF \E i \in DOMAIN list : list[i].column = c
        THEN Assigned(list[CHOOSE i \in DOMAIN list : list[i].column = c /\ \A j \in DOMAIN list : list[j].column = c => j <= i], row)
        ELSE row[c]]

(* Statements *)

Failed(tbl, err) == [err |-> err, rows |-> <<>>, rowCount |-> 0, table |-> tbl]
Executed(tbl, rows, rowCount) == [err |-> NoErr, rows |-> rows, rowCount |-> rowCount, table |-> tbl]

\* SELECT * FROM <table> [WHERE ..] [LIMIT 1] and SELECT COUNT(*) ..
ExecuteSelect(tbl, tail, counting) ==
    IF TailError(tbl, tail) # NoErr THEN Failed(tbl, TailError(tbl, tail))
    ELSE LET matching == SelectSeq([i \in DOMAIN tbl.rows |-> [at |-> i, row |-> tbl.rows[i]]],
                                   LAMBDA r: r.at \in Selected(tbl, tail))
             rows == [i \in DOMAIN matching |-> matching[i].row]
         IN IF counting THEN Executed(tbl, <<[count |-> Len(rows)]>>, 1)
            ELSE IF \E i \in DOMAIN tail : IsLimitOne(tail[i]) /\ Len(rows) > 1 THEN Executed(tbl, <<rows[1]>>, 1)
            ELSE Executed(tbl, rows, Len(rows))

\* UPDATE <table> SET .. [WHERE ..]: every row the condition selects is updated.
ExecuteUpdate(tbl, tail) ==
    IF tail = <<>> \/ tail[1] # Kw(" SET ") THEN Failed(tbl, "syntax error")
    ELSE LET rest == Tail(tail)
             at == IF \E i \in DOMAIN rest : IsWhere(rest[i])
                   THEN CHOOSE i \in DOMAIN rest : IsWhere(rest[i]) /\ \A j \in 1..(i - 1) : ~IsWhere(rest[j])
                   ELSE Len(rest) + 1
             list == Assignments(SubSeq(rest, 1, at - 1))
             where == SubSeq(rest, at, Len(rest))
         IN IF SetError(tbl, list) # NoErr THEN Failed(tbl, SetError(tbl, list))
            ELSE IF TailError(tbl, where) # NoErr THEN Failed(tbl, TailError(tbl, where))
            ELSE Executed([tbl EXCEPT !.rows = [i \in DOMAIN tbl.rows |->
                                                   IF i \in Selected(tbl, where) THEN Updated(tbl.rows[i], list)
                                                   ELSE tbl.rows[i]]],
                          <<>>, Cardinality(Selected(tbl, where)))

\* INSERT INTO <table> (<columns>) VALUES (<values>): the columns not named are
\* NULL; a NULL in a NOT NULL or PRIMARY KEY column, or a primary key already
\* in the table, fails the statement.
ExecuteInsert(tbl, tail) ==
    LET names == SelectSeq(tail, LAMBDA tok: tok.k = "q")
        values == ArgsOf(tail)
        shape == <<" (">> \o Words(Join([i \in DOMAIN names |-> <<names[i]>>], ", ")) \o <<") VALUES (">>
                 \o Words(Join([i \in DOMAIN values |-> <<Arg(values[i])>>], ", "))
        row == [c \in ColumnNames(tbl) |->
                   IF \E i \in DOMAIN names : ColumnOf(names[i]) = c
                   THEN LET v == values[CHOOSE i \in DOMAIN names : ColumnOf(names[i]) = c]
                        IN IF v = Undef THEN Null ELSE v
                   ELSE Null]
    IN IF \/ Len(names) = 0 \/ Len(names) # Len(values)
          \/ Words(tail) \notin {shape \o <<")">>, shape \o <<") RETURNING *">>}
       THEN Failed(tbl, "syntax error")
       ELSE IF \E i \in DOMAIN names : ColumnOf(names[i]) \notin ColumnNames(tbl) THEN Failed(tbl, "no such column")
       ELSE IF \E i \in DOMAIN tbl.columns :
                  LET column == tbl.columns[i]
                  IN \/ (column.notNull \/ column.primaryKey) /\ row[column.name] = Null
                     \/ column.primaryKey /\ \E j \in DOMAIN tbl.rows : tbl.rows[j][column.name] = row[column.name]
       THEN Failed(tbl, "constraint failed")
       ELSE Executed([tbl EXCEPT !.rows = Append(@, row)], <<row>>, 1)

\* DELETE FROM <table> [WHERE ..]: every row the condition selects is removed.
ExecuteDelete(tbl, tail) ==
    IF TailError(tbl, tail) # NoErr \/ \E i \in DOMAIN tail : IsLimitOne(tail[i])
    THEN Failed(tbl, IF TailError(tbl, tail) # NoErr THEN TailError(tbl, tail) ELSE "syntax error")
    ELSE LET kept == SelectSeq([i \in DOMAIN tbl.rows |-> [at |-> i, row |-> tbl.rows[i]]],
                               LAMBDA r: r.at \notin Selected(tbl, tail))
         IN Executed([tbl EXCEPT !.rows = [i \in DOMAIN kept |-> kept[i].row]], <<>>, Cardinality(Selected(tbl, tail)))

\* CREATE [UNIQUE] INDEX [IF NOT EXISTS] <name> ON <table> (<columns>): the
\* index is kept under the name the statement gives it.
ExecuteCreateIndex(tbl, name, tail, ifNotExists) ==
    LET columns == SelectSeq(SubSeq(tail, 3, Len(tail)), LAMBDA tok: tok.k = "q")
    IN IF \/ Len(tail) < 5 \/ tail[1] # Kw(" ON ") \/ tail[2].k # "q" \/ tail[3] # Kw(" (")
          \/ tail[Len(tail)] # Kw(")") \/ columns = <<>>
       THEN Failed(tbl, "syntax error")
       ELSE IF \E i \in DOMAIN columns : ColumnOf(columns[i]) \notin ColumnNames(tbl) THEN Failed(tbl, "no such column")
       ELSE IF name.inner \in tbl.indexes
       THEN (IF ifNotExists THEN Executed(tbl, <<>>, 0) ELSE Failed(tbl, "index already exists"))
       ELSE Executed([tbl EXCEPT !.indexes = @ \cup {name.inner}], <<>>, 0)

\* DROP INDEX IF EXISTS <name>: the index of that name is removed, if there is one.
ExecuteDropIndex(tbl, name, tail) ==
    IF tail # <<>> THEN Failed(tbl, "syntax error")
    ELSE Executed([tbl EXCEPT !.indexes = @ \ {name.inner}], <<>>, 0)

\* connection.query(sql, params): the statement runs as a whole or not at all.
Execute(tbl, sql, params) ==
    IF BindFails(sql, params) THEN Failed(tbl, "bind error")
    ELSE Given(Lex(Bound(sql, params)),
               LAMBDA text:
                   IF \A i \in DOMAIN text : text[i].k # "q" THEN Failed(tbl, "syntax error")
                   ELSE Given(CHOOSE i \in DOMAIN text : text[i].k = "q" /\ \A j \in 1..(i - 1) : text[j].k # "q",
                              LAMBDA at:
                                  CASE Words(SubSeq(text, 1, at - 1)) \in {<<"SELECT * FROM ">>, <<"SELECT ", "*", " FROM ">>} ->
                                          ExecuteSelect(tbl, SubSeq(text, at + 1, Len(text)), FALSE)
                                    [] Words(SubSeq(text, 1, at - 1)) = <<"SELECT COUNT(*) as count FROM ">> ->
                                          ExecuteSelect(tbl, SubSeq(text, at + 1, Len(text)), TRUE)
                                    [] Words(SubSeq(text, 1, at - 1)) = <<"UPDATE ">> ->
                                          ExecuteUpdate(tbl, SubSeq(text, at + 1, Len(text)))
                                    [] Words(SubSeq(text, 1, at - 1)) = <<"INSERT INTO ">> ->
                                          ExecuteInsert(tbl, SubSeq(text, at + 1, Len(text)))
                                    [] Words(SubSeq(text, 1, at - 1)) \in
                                          {<<"CREATE", "INDEX IF NOT EXISTS">>, <<"CREATE", "UNIQUE", "INDEX IF NOT EXISTS">>} ->
                                          ExecuteCreateIndex(tbl, text[at], SubSeq(text, at + 1, Len(text)), TRUE)
                                    [] Words(SubSeq(text, 1, at - 1)) \in {<<"CREATE", "INDEX">>, <<"CREATE", "UNIQUE", "INDEX">>} ->
                                          ExecuteCreateIndex(tbl, text[at], SubSeq(text, at + 1, Len(text)), FALSE)
                                    [] Words(SubSeq(text, 1, at - 1)) = <<"DROP INDEX IF EXISTS ">> ->
                                          ExecuteDropIndex(tbl, text[at], SubSeq(text, at + 1, Len(text)))
                                    [] Words(SubSeq(text, 1, at - 1)) = <<"DELETE FROM ">> ->
                                          ExecuteDelete(tbl, SubSeq(text, at + 1, Len(text)))
                                    [] OTHER -> Failed(tbl, "syntax error")))

----------------------------------------------------------------------------
(* Collection: the methods over one table of the database *)

\* What a method of Collection resolves to (value) or rejects with (err), and
\* the table it leaves behind.
\* queries counts the calls of connection.query made; at tells where a
\* rejection was raised: by the statement, by a translation of the adapter
\* before the statement was handed over, or by the method on its arguments.
Resolved(tbl, value) == [table |-> tbl, err |-> NoErr, value |-> value, queries |-> 1, at |-> ""]
Rejected(tbl, err) == [table |-> tbl, err |-> err, value |-> Undef, queries |-> 1, at |-> "query"]
Thrown(tbl, err) == [table |-> tbl, err |-> err, value |-> Undef, queries |-> 0, at |-> "translate"]
Refused(tbl, err) == [table |-> tbl, err |-> err, value |-> Undef, queries |-> 0, at |-> "argument"]

\* A row of a result set as the object the driver returns: a property per
\* column of the table, in the table's order.
RowObject(tbl, row) == Obj([i \in DOMAIN tbl.columns |-> Ent(tbl.columns[i].name, row[tbl.columns[i].name])])

\* parseJsonFields of the SQLite connection, applied to every row it returns
parseJsonFields(obj) == Obj([i \in DOMAIN Entries(obj) |-> Ent(Entries(obj)[i].k, ParseIfJson(Entries(obj)[i].v))])

\* connection.query for a SELECT: the rows as the connection hands them on
QueryRows(ad, tbl, rows) ==
    [i \in DOMAIN rows |-> IF ad = "sqlite" THEN parseJsonFields(RowObject(tbl, rows[i])) ELSE RowObject(tbl, rows[i])]

\* adapter.processQueryResult: SqliteAdapter parses the strings that hold JSON
\* text, column by column; the other adapters return rows and rowCount as given.
processQueryResult(ad, rows) ==
    [i \in DOMAIN rows |-> IF ad = "sqlite" THEN parseJsonFields(rows[i]) ELSE rows[i]]

\* Object.assign(doc, extraFields)
Assign(doc, fields) ==
    FoldSeq(LAMBDA acc, e: IF \E i \in DOMAIN acc : acc[i].k = e.k
                           THEN [i \in DOMAIN acc |-> IF acc[i].k = e.k THEN e ELSE acc[i]]
                           ELSE Append(acc, e),
            doc, fields)

\* Collection.rowToDocument
rowToDocument(row) ==
    IF HasKey(row, "data") /\ Get(row, "data").t = "json"
    THEN LET parsedData == Get(row, "data").of
         IN IF Truthy(Get(row, "_id")) THEN Obj(Assign(Entries(parsedData), <<Ent("_id", Get(row, "_id"))>>))
            ELSE parsedData
    ELSE Obj(FoldSeq(LAMBDA doc, e: IF e.k = "_extra" /\ e.v.t = "json" THEN Assign(doc, Entries(e.v.of))
                                    ELSE Assign(doc, <<Ent(e.k, ParseIfJson(e.v))>>),
                     <<>>, Entries(row)))

\* Collection.findOne
findOne(ad, en, schemas, name, tbl, filter) ==
    Given(translateFilter(ad, en, schemas, filter, ""),
          LAMBDA whereClause:
              IF whereClause.err # NoErr THEN Thrown(tbl, whereClause.err)
              ELSE Given(Execute(tbl, <<Kw("SELECT * FROM ")>> \o escapeIdentifier(ad, <<Nm(name)>>) \o <<Kw(" ")>> \o
                                      whereClause.sql \o <<Kw(" LIMIT 1")>>, whereClause.params),
                         LAMBDA result:
                             IF result.err # NoErr THEN Rejected(tbl, result.err)
                             ELSE IF Len(result.rows) = 0 THEN Resolved(tbl, Null)
                             ELSE Resolved(tbl, rowToDocument(processQueryResult(ad, QueryRows(ad, tbl, result.rows))[1]))))

\* Collection.find, without options
find(ad, en, schemas, name, tbl, filter) ==
    Given(translateFind(ad, en, schemas, name, filter, Obj(<<>>)),
          LAMBDA query:
              IF query.err # NoErr THEN Thrown(tbl, query.err)
              ELSE Given(Execute(tbl, query.sql, query.params),
                         LAMBDA result:
                             IF result.err # NoErr THEN Rejected(tbl, result.err)
                             ELSE Resolved(tbl, Arr([i \in DOMAIN result.rows |->
                                                        rowToDocument(processQueryResult(ad, QueryRows(ad, tbl, result.rows))[i])]))))

\* Collection.countDocuments
countDocuments(ad, en, schemas, name, tbl, filter) ==
    Given(CountDocuments(ad, en, schemas, name, filter),
          LAMBDA query:
              IF query.err # NoErr THEN Thrown(tbl, query.err)
              ELSE Given(Execute(tbl, query.sql, query.params),
                         LAMBDA result:
                             IF result.err # NoErr THEN Rejected(tbl, result.err)
                             ELSE IF Len(result.rows) > 0 THEN Resolved(tbl, Num(result.rows[1].count))
                             ELSE Resolved(tbl, Num(0))))

\* Collection.insertOne; id is what generateId() returns when it is called
insertOne(ad, en, schemas, name, tbl, doc, id) ==
    Given(IF Truthy(Get(doc, "_id")) THEN Get(doc, "_id") ELSE id,
          LAMBDA _id:
              Given(translateInsert(ad, en, schemas, name, Obj(Assign(Entries(doc), <<Ent("_id", _id)>>))),
                    LAMBDA insertQuery:
                        IF insertQuery.err # NoErr THEN Thrown(tbl, insertQuery.err)
                        ELSE Given(Execute(tbl, insertQuery.sql, insertQuery.params),
                                   LAMBDA result:
                                       IF result.err # NoErr THEN Rejected(tbl, result.err)
                                       ELSE Resolved(result.table,
                                                     Obj2("acknowledged", Bool(TRUE), "insertedId", _id)))))

\* The DeleteResult of Collection.deleteOne and Collection.deleteMany
DeleteResult(deletedCount) == Obj2("acknowledged", Bool(TRUE), "deletedCount", Num(deletedCount))

\* Collection.deleteMany
deleteMany(ad, en, schemas, name, tbl, filter) ==
    Given(translateDelete(ad, en, schemas, name, filter),
          LAMBDA deleteQuery:
              IF deleteQuery.err # NoErr THEN Thrown(tbl, deleteQuery.err)
              ELSE Given(Execute(tbl, deleteQuery.sql, deleteQuery.params),
                         LAMBDA result:
                             IF result.err # NoErr THEN Rejected(tbl, result.err)
                             ELSE Resolved(result.table, DeleteResult(result.rowCount))))

\* The name of an index, as the string createIndex returns and dropIndex takes
NameOf(text) == [t |-> "name", text |-> text]

\* Collection.generateIndexName: <name>_<field>_<asc|desc>_...
generateIndexName(name, fields) ==
    <<Nm(name), Kw("_")>> \o
    Join([i \in DOMAIN Entries(fields) |->
             <<Nm(Entries(fields)[i].k), Kw(IF Entries(fields)[i].v = Num(1) THEN "_asc" ELSE "_desc")>>], "_")

\* Collection.createIndex
createIndex(ad, name, tbl, fieldOrSpec, options) ==
    LET fields == IF fieldOrSpec.t = "str" THEN Obj1(fieldOrSpec.s, Num(1)) ELSE fieldOrSpec
        indexName == IF Truthy(Get(options, "name")) THEN <<Nm(Get(options, "name").s)>>
                     ELSE generateIndexName(name, fields)
    IN Given(translateCreateIndex(ad, name, indexName, fields, options),
             LAMBDA indexQuery:
                 Given(Execute(tbl, indexQuery.sql, indexQuery.params),
                       LAMBDA result:
                           IF result.err # NoErr THEN Rejected(tbl, result.err)
                           ELSE Resolved(result.table, NameOf(indexName))))

\* Collection.dropIndex
dropIndex(ad, tbl, indexName) ==
    Given(Execute(tbl, <<Kw("DROP INDEX IF EXISTS ")>> \o escapeIdentifier(ad, indexName.text), <<>>),
          LAMBDA result:
              IF result.err # NoErr THEN Rejected(tbl, result.err)
              ELSE Resolved(result.table, Undef))

\* The statements Collection.updateOne runs for a document it found, as the
\* updates it hands to translateUpdate one after the other: one per field of
\* $set, one for $inc, one for $push, $pull, $addToSet and $unset together.
\* The other operators of the update are not read.
UpdateGroups(update) ==
    (IF Truthy(Get(update, "$set"))
     THEN [i \in DOMAIN Entries(Get(update, "$set")) |-> Obj1("$set", Obj(<<Entries(Get(update, "$set"))[i]>>))]
     ELSE <<>>)
    \o (IF Truthy(Get(update, "$inc")) THEN <<Obj1("$inc", Get(update, "$inc"))>> ELSE <<>>)
    \o (IF \E op \in {"$push", "$pull", "$addToSet", "$unset"} : Truthy(Get(update, op))
        THEN <<Obj(SelectSeq([i \in 1..4 |-> Ent(<<"$push", "$pull", "$addToSet", "$unset">>[i],
                                                 Get(update, <<"$push", "$pull", "$addToSet", "$unset">>[i]))],
                             LAMBDA e: Truthy(e.v)))>>
        ELSE <<>>)

\* The document Collection.updateOne inserts when nothing matches and upsert
\* is set: $setOnInsert, then $set, then the filter's plain values.
UpsertDocument(filter, update) ==
    Obj(Assign(Assign(IF Truthy(Get(update, "$setOnInsert")) THEN Entries(Get(update, "$setOnInsert")) ELSE <<>>,
                      IF Truthy(Get(update, "$set")) THEN Entries(Get(update, "$set")) ELSE <<>>),
               SelectSeq(Entries(filter), LAMBDA e: ~IsObject(e.v) \/ e.v = Null)))

\* The UpdateResult of Collection.updateOne
UpdateResult(matchedCount, modifiedCount, upsertedCount, upsertedId) ==
    Obj(<<Ent("acknowledged", Bool(TRUE)), Ent("matchedCount", Num(matchedCount)),
          Ent("modifiedCount", Num(modifiedCount)), Ent("upsertedCount", Num(upsertedCount)),
          Ent("upsertedId", upsertedId)>>)

\* The InsertManyResult of Collection.insertMany
InsertManyResult(insertedIds, writeErrors) ==
    Obj(<<Ent("acknowledged", Bool(TRUE)), Ent("insertedCount", Num(Len(insertedIds))),
          Ent("insertedIds", Arr(insertedIds)), Ent("hasWriteErrors", Bool(Len(writeErrors) > 0)),
          Ent("writeErrors", IF Len(writeErrors) > 0 THEN Arr(writeErrors) ELSE Undef)>>)

----------------------------------------------------------------------------
(* The inputs of the Collection calls *)

\* The calls of createIndex: fieldOrSpec and options
CreateIndexCalls ==
    {[fieldOrSpec |-> Str("name"), options |-> Obj(<<>>)],
     [fieldOrSpec |-> Obj2("name", Num(1), "tags", Num(0 - 1)), options |-> Obj1("unique", Bool(TRUE))],
     [fieldOrSpec |-> Obj1("name", Num(1)), options |-> Obj1("name", Str("byname"))]}

\* Calls made in one behaviour, over all clients
MaxCalls == 2

Clients == {1, 2}

\* The schemas the collection is created with
CollectionSchemas ==
    {[properties |-> <<Property("_id", "string", <<>>), Property("name", "string", <<>>),
                       Property("age", "integer", <<>>), Property("tags", "array", <<>>)>>,
      required |-> <<"_id">>],
     [properties |-> <<Property("_id", "string", <<>>), Property("name", "string", <<>>),
                       Property("tags", "array", <<>>), Property("_extra", "object", <<>>)>>,
      required |-> <<"_id">>]}

\* The documents the collection holds at first, inserted one after the other
Seeds ==
    {<<>>,
     <<Obj(<<Ent("_id", Str("i1")), Ent("name", Str("x")), Ent("tags", Arr(<<Str("a"), Str("b")>>))>>)>>,
     <<Obj(<<Ent("_id", Str("i1")), Ent("name", Str("x")), Ent("tags", Arr(<<Str("a"), Str("b")>>))>>),
       Obj(<<Ent("_id", Str("i2")), Ent("name", Str("x"))>>)>>}

StoredDocuments ==
    {Obj(<<Ent("_id", Str("i3")), Ent("name", Str("x")), Ent("tags", Arr(<<Str("a"), Str("b")>>))>>),
     Obj(<<Ent("_id", Str("i1")), Ent("name", Str("y")), Ent("zip", Num(1))>>),
     Obj(<<Ent("name", Str("y"))>>)}

DocumentLists ==
    {Arr(<<>>), Null,
     Arr(<<Obj(<<Ent("_id", Str("i3")), Ent("name", Str("x"))>>),
           Obj(<<Ent("_id", Str("i3")), Ent("name", Str("y")), Ent("zip", Num(1))>>),
           Obj(<<Ent("_id", Str("i4")), Ent("name", Str("x"))>>)>>),
     Arr(<<Null, Obj(<<Ent("name", Str("y"))>>)>>)}

CollectionFilters ==
    {EmptyFilter, Obj1("_id", Str("i1")), Obj1("name", Str("x")), Obj1("tags", Obj1("$in", Arr(<<Str("a")>>)))}

\* The calls of updateOne: filter, update and options.upsert
UpdateOneCalls ==
    {[filter |-> Obj1("_id", Str("i1")), update |-> Obj1("$addToSet", Obj1("tags", Str("a"))), upsert |-> FALSE],
     [filter |-> Obj1("_id", Str("i1")), update |-> Obj1("$addToSet", Obj1("tags", Str("c"))), upsert |-> FALSE],
     [filter |-> Obj1("_id", Str("i2")), update |-> Obj1("$addToSet", Obj1("tags", Str("c"))), upsert |-> FALSE],
     [filter |-> Obj1("name", Str("x")), update |-> Obj1("$set", Obj1("name", Str("y"))), upsert |-> FALSE],
     [filter |-> Obj1("name", Str("x")), update |-> Obj1("$inc", Obj1("age", Num(1))), upsert |-> FALSE],
     [filter |-> Obj1("_id", Str("i1")), update |-> Obj1("$mul", Obj1("age", Num(2))), upsert |-> FALSE],
     [filter |-> Obj1("_id", Str("i1")), update |-> Obj1("$push", Obj1("tags", Cyclic)), upsert |-> FALSE],
     [filter |-> Obj1("_id", Str("i1")),
      update |-> Obj2("$set", Obj1("name", Str("y")), "$push", Obj1("labels", Str("c"))), upsert |-> FALSE],
     [filter |-> Obj1("_id", Str("i2")), update |-> Obj1("$set", Obj1("name", Str("y"))), upsert |-> TRUE],
     [filter |-> EmptyFilter, update |-> Obj1("$set", Obj1("name", Str("y"))), upsert |-> FALSE]}

\* What generateId() can return: an id no document of the table has
GeneratedIds == {"o1", "o2"}
FreshIds(tbl) ==
    LET unused == {id \in GeneratedIds : \A i \in DOMAIN tbl.rows : tbl.rows[i]["_id"] # Str(id)}
    IN IF "o1" \in unused THEN {Str("o1")} ELSE {Str(id) : id \in unused}

----------------------------------------------------------------------------
(* The state machine of a collection and its clients *)

\* A call of a Collection method by a client: its arguments, where it stands
\* (pc), the locals of the method, what it resolved to (value) or rejected with
\* (err), and the table as it was when the call was made.
Call(op, filter, arg, upsert, before, n) ==
    [op |-> op, filter |-> filter, arg |-> arg, upsert |-> upsert, before |-> before, n |-> n,
     pc |-> "called", i |-> 1, matchedCount |-> 0, modifiedCount |-> 0,
     insertedIds |-> <<>>, writeErrors |-> <<>>, writes |-> 0, queries |-> 0, at |-> "", found |-> Undef,
     err |-> NoErr, value |-> Undef]
NoCall == [Call("", EmptyFilter, Null, FALSE, NoTable, 0) EXCEPT !.pc = "idle"]

\* The call has settled: resolved to value, or rejected with err.
Settle(call, outcome) ==
    [call EXCEPT !.pc = "done", !.err = outcome.err, !.value = outcome.value,
                 !.queries = @ + outcome.queries, !.at = outcome.at]

thisAdapter == request.ad
thisName == request.second

\* The calls that have resolved or rejected, by client
Settled(op) == {c \in DOMAIN calls : calls[c].pc = "done" /\ calls[c].op = op}

\* A client calls when its last call has settled; the second client only
\* while the first one is in a call, which covers the overlapping calls.
CanCall(c) ==
    /\ calls[c].pc \in {"idle", "done"}
    /\ calls[1].n + calls[2].n < MaxCalls
    /\ c = 2 => calls[1].pc \notin {"idle", "done"}
Calling(c, op, filter, arg, upsert) == Call(op, filter, arg, upsert, table, calls[c].n + 1)

\* db.createCollection(name, schema) on a new database, with the schemas of
\* SqliteAdapter enabled as its callers do before they create a collection,
\* and then insertOne of each document the collection holds at first.
CollectionInit ==
    /\ request \in {Request("collection", ad, t, EmptyFilter, schema) :
                       ad \in Adapters, t \in TableNames, schema \in CollectionSchemas}
    /\ response = Idle
    /\ isSchemaEnabled = (request.ad = "sqlite")
    /\ collectionSchemas = IF request.ad = "sqlite"
                           THEN (request.second :> analyzeSchema(request.second, request.arg))
                           ELSE NoSchemas
    /\ \E seed \in Seeds :
          table = FoldSeq(LAMBDA tbl, doc: insertOne(request.ad, isSchemaEnabled, collectionSchemas,
                                                     request.second, tbl, doc, Undef).table,
                          CreateTable(translateSchema(request.ad, request.second, request.arg).sql), seed)
    /\ calls = [c \in Clients |-> NoCall]

\* The methods that run one statement
Single(c, op, filter, arg, outcome) ==
    /\ CanCall(c)
    /\ table' = outcome.table
    /\ calls' = [calls EXCEPT ![c] = Settle([Calling(c, op, filter, arg, FALSE) EXCEPT !.writes = IF op = "insertOne" THEN 1 ELSE 0],
                                            outcome)]
    /\ UNCHANGED <<isSchemaEnabled, collectionSchemas, request, response>>

FindOneCall(c, filter) ==
    Single(c, "findOne", filter, Null, findOne(thisAdapter, isSchemaEnabled, collectionSchemas, thisName, table, filter))
FindCall(c, filter) ==
    Single(c, "find", filter, Null, find(thisAdapter, isSchemaEnabled, collectionSchemas, thisName, table, filter))
CountDocumentsOf(c, filter) ==
    Single(c, "countDocuments", filter, Null,
           countDocuments(thisAdapter, isSchemaEnabled, collectionSchemas, thisName, table, filter))
InsertOneCall(c, doc) ==
    \E id \in (IF Truthy(Get(doc, "_id")) THEN {Undef} ELSE FreshIds(table)) :
        Single(c, "insertOne", EmptyFilter, doc,
               insertOne(thisAdapter, isSchemaEnabled, collectionSchemas, thisName, table, doc, id))

\* Collection.insertMany up to its loop
InsertManyCall(c, docs) ==
    /\ CanCall(c)
    /\ calls' = [calls EXCEPT ![c] =
                    IF ~IsArray(docs) \/ Len(docs.items) = 0
                    THEN Settle(Calling(c, "insertMany", EmptyFilter, docs, FALSE),
                                Refused(table, "docs parameter must be a non-empty array"))
                    ELSE [Calling(c, "insertMany", EmptyFilter, docs, FALSE) EXCEPT !.pc = "insert"]]
    /\ UNCHANGED <<isSchemaEnabled, collectionSchemas, request, response, table>>

\* An insertMany that gave up at the first insert that failed, to compare with
InsertManyTurnStopping(c, call, outcome) ==
    LET insertedIds == IF outcome.err = NoErr THEN Append(call.insertedIds, Get(outcome.value, "insertedId"))
                       ELSE call.insertedIds
        writeErrors == IF outcome.err # NoErr
                       THEN Append(call.writeErrors, Obj2("index", Num(call.i - 1), "error", Str(outcome.err)))
                       ELSE call.writeErrors
        turned == [call EXCEPT !.i = @ + 1, !.insertedIds = insertedIds, !.writeErrors = writeErrors,
                               !.writes = @ + 1]
    IN IF call.i < Len(call.arg.items) /\ outcome.err = NoErr THEN [turned EXCEPT !.queries = @ + outcome.queries]
       ELSE Settle(turned, [Resolved(outcome.table, InsertManyResult(insertedIds, writeErrors))
                               EXCEPT !.queries = outcome.queries])

\* One turn of the loop of Collection.insertMany: insertOne(docs[i]) and what
\* is recorded of it; after the last turn the call resolves.
InsertManyTurn(c, call, outcome) ==
    LET insertedIds == IF outcome.err = NoErr THEN Append(call.insertedIds, Get(outcome.value, "insertedId"))
                       ELSE call.insertedIds
        writeErrors == IF outcome.err # NoErr
                       THEN Append(call.writeErrors, Obj2("index", Num(call.i - 1), "error", Str(outcome.err)))
                       ELSE call.writeErrors
        turned == [call EXCEPT !.i = @ + 1, !.insertedIds = insertedIds, !.writeErrors = writeErrors,
                               !.writes = @ + 1]
    IN IF call.i < Len(call.arg.items) THEN [turned EXCEPT !.queries = @ + outcome.queries]
       ELSE Settle(turned, [Resolved(outcome.table, InsertManyResult(insertedIds, writeErrors))
                               EXCEPT !.queries = outcome.queries])

InsertManyStep(c) ==
    /\ calls[c].pc = "insert"
    /\ \E doc \in {calls[c].arg.items[calls[c].i]} :
          \E id \in (IF ~IsObject(doc) \/ Truthy(Get(doc, "_id")) THEN {Undef} ELSE FreshIds(table)) :
             \E outcome \in {IF ~IsObject(doc) THEN Refused(table, "TypeError")
                             ELSE insertOne(thisAdapter, isSchemaEnabled, collectionSchemas, thisName, table, doc, id)} :
                /\ table' = outcome.table
                /\ calls' = [calls EXCEPT ![c] = InsertManyTurn(c, calls[c], outcome)]
    /\ UNCHANGED <<isSchemaEnabled, collectionSchemas, request, response>>

\* Collection.updateOne up to the result of its findOne(filter)
UpdateOneFound(call, existingDoc) ==
    IF existingDoc.err # NoErr THEN Settle(call, existingDoc)
    ELSE IF ~Truthy(existingDoc.value) /\ call.upsert
    THEN [call EXCEPT !.pc = "upsert", !.queries = @ + existingDoc.queries]
    ELSE IF ~Truthy(existingDoc.value) \/ UpdateGroups(call.arg) = <<>>
    THEN Settle(call, [Resolved(existingDoc.table, UpdateResult(0, 0, 0, Null))
                          EXCEPT !.queries = existingDoc.queries])
    ELSE [call EXCEPT !.pc = "update", !.queries = @ + existingDoc.queries]

UpdateOneCall(c, filter, update, upsert) ==
    /\ CanCall(c)
    /\ calls' = [calls EXCEPT ![c] =
                    UpdateOneFound(Calling(c, "updateOne", filter, update, upsert),
                                   findOne(thisAdapter, isSchemaEnabled, collectionSchemas, thisName, table, filter))]
    /\ UNCHANGED <<isSchemaEnabled, collectionSchemas, request, response, table>>

\* The insertOne of Collection.updateOne when nothing matched and upsert is set
UpdateOneUpsert(c) ==
    /\ calls[c].pc = "upsert"
    /\ \E newDoc \in {UpsertDocument(calls[c].filter, calls[c].arg)} :
          \E id \in (IF Truthy(Get(newDoc, "_id")) THEN {Undef} ELSE FreshIds(table)) :
             \E result \in {insertOne(thisAdapter, isSchemaEnabled, collectionSchemas, thisName, table, newDoc, id)} :
                /\ table' = result.table
                /\ calls' = [calls EXCEPT ![c] =
                                Settle([@ EXCEPT !.writes = @ + 1],
                                       IF result.err # NoErr THEN result
                                       ELSE Resolved(result.table,
                                                     UpdateResult(0, 0, 1, Get(result.value, "insertedId"))))]
    /\ UNCHANGED <<isSchemaEnabled, collectionSchemas, request, response>>

\* One statement of Collection.updateOne: the update of the next group is
\* translated and run; an error is rethrown, and after the last statement the
\* call resolves with its counts.
UpdateOneRan(call, updateQuery, result) ==
    LET matched == IF result.rowCount > 0 THEN 1 ELSE call.matchedCount
        ran == [call EXCEPT !.i = @ + 1, !.matchedCount = matched, !.modifiedCount = matched, !.writes = @ + 1]
    IN IF updateQuery.err # NoErr THEN Settle(call, Thrown(result.table, updateQuery.err))
       ELSE IF result.err # NoErr THEN Settle([call EXCEPT !.writes = @ + 1], Rejected(result.table, result.err))
       ELSE IF call.i < Len(UpdateGroups(call.arg)) THEN [ran EXCEPT !.queries = @ + 1]
       ELSE Settle(ran, Resolved(result.table, UpdateResult(matched, matched, 0, Null)))

\* An updateOne that undid its earlier statements when a statement failed, to compare with
UpdateOneStatementRollingBack(c) ==
    /\ calls[c].pc = "update"
    /\ \E updateQuery \in {translateUpdate(thisAdapter, isSchemaEnabled, collectionSchemas, thisName,
                                           UpdateGroups(calls[c].arg)[calls[c].i], calls[c].filter)} :
          \E result \in {IF updateQuery.err # NoErr THEN Failed(calls[c].before, updateQuery.err)
                         ELSE Execute(table, updateQuery.sql, updateQuery.params)} :
             /\ table' = IF result.err # NoErr THEN calls[c].before ELSE result.table
             /\ calls' = [calls EXCEPT ![c] = UpdateOneRan(calls[c], updateQuery, result)]
    /\ UNCHANGED <<isSchemaEnabled, collectionSchemas, request, response>>

UpdateOneStatement(c) ==
    /\ calls[c].pc = "update"
    /\ \E updateQuery \in {translateUpdate(thisAdapter, isSchemaEnabled, collectionSchemas, thisName,
                                           UpdateGroups(calls[c].arg)[calls[c].i], calls[c].filter)} :
          \E result \in {IF updateQuery.err # NoErr THEN Failed(table, updateQuery.err)
                         ELSE Execute(table, updateQuery.sql, updateQuery.params)} :
             /\ table' = result.table
             /\ calls' = [calls EXCEPT ![c] = UpdateOneRan(calls[c], updateQuery, result)]
    /\ UNCHANGED <<isSchemaEnabled, collectionSchemas, request, response>>

DeleteManyCall(c, filter) ==
    Single(c, "deleteMany", filter, Null,
           deleteMany(thisAdapter, isSchemaEnabled, collectionSchemas, thisName, table, filter))

\* Collection.deleteOne up to the result of its findOne(filter)
DeleteOneFound(call, doc) ==
    IF doc.err # NoErr THEN Settle(call, doc)
    ELSE IF ~Truthy(doc.value) THEN Settle(call, [Resolved(doc.table, DeleteResult(0)) EXCEPT !.queries = doc.queries])
    ELSE [call EXCEPT !.pc = "delete", !.queries = @ + doc.queries, !.found = doc.value]

DeleteOneCall(c, filter) ==
    /\ CanCall(c)
    /\ calls' = [calls EXCEPT ![c] =
                    DeleteOneFound(Calling(c, "deleteOne", filter, Null, FALSE),
                                   findOne(thisAdapter, isSchemaEnabled, collectionSchemas, thisName, table, filter))]
    /\ UNCHANGED <<isSchemaEnabled, collectionSchemas, request, response, table>>

\* The DELETE of Collection.deleteOne, by the _id of the document it found
DeleteOneRan(call, deleteQuery, result) ==
    IF deleteQuery.err # NoErr THEN Settle(call, Thrown(result.table, deleteQuery.err))
    ELSE IF result.err # NoErr THEN Settle([call EXCEPT !.writes = @ + 1], Rejected(result.table, result.err))
    ELSE Settle([call EXCEPT !.writes = @ + 1], Resolved(result.table, DeleteResult(1)))

DeleteOneStatement(c) ==
    /\ calls[c].pc = "delete"
    /\ \E deleteQuery \in {translateDelete(thisAdapter, isSchemaEnabled, collectionSchemas, thisName,
                                           Obj1("_id", Get(calls[c].found, "_id")))} :
          \E result \in {IF deleteQuery.err # NoErr THEN Failed(table, deleteQuery.err)
                         ELSE Execute(table, deleteQuery.sql, deleteQuery.params)} :
             /\ table' = result.table
             /\ calls' = [calls EXCEPT ![c] = DeleteOneRan(calls[c], deleteQuery, result)]
    /\ UNCHANGED <<isSchemaEnabled, collectionSchemas, request, response>>

CreateIndexCall(c, fieldOrSpec, options) ==
    Single(c, "createIndex", EmptyFilter, fieldOrSpec, createIndex(thisAdapter, thisName, table, fieldOrSpec, options))

\* dropIndex with a name that a createIndex of this client or another has returned
DropIndexCall(c, indexName) ==
    Single(c, "dropIndex", EmptyFilter, indexName, dropIndex(thisAdapter, table, indexName))

CollectionNext ==
    \/ \E c \in Clients, filter \in CollectionFilters : FindOneCall(c, filter)
    \/ \E c \in Clients, filter \in CollectionFilters : FindCall(c, filter)
    \/ \E c \in Clients, filter \in CollectionFilters : CountDocumentsOf(c, filter)
    \/ \E c \in Clients, doc \in StoredDocuments : InsertOneCall(c, doc)
    \/ \E c \in Clients, docs \in DocumentLists : InsertManyCall(c, docs)
    \/ \E c \in Clients : InsertManyStep(c)
    \/ \E c \in Clients, call \in UpdateOneCalls : UpdateOneCall(c, call.filter, call.update, call.upsert)
    \/ \E c \in Clients : UpdateOneUpsert(c)
    \/ \E c \in Clients : UpdateOneStatement(c)
    \/ \E c \in Clients, filter \in CollectionFilters : DeleteManyCall(c, filter)
    \/ \E c \in Clients, filter \in CollectionFilters : DeleteOneCall(c, filter)
    \/ \E c \in Clients : DeleteOneStatement(c)
    \/ \E c \in Clients, call \in CreateIndexCalls : CreateIndexCall(c, call.fieldOrSpec, call.options)
    \/ \E c \in Clients, created \in Settled("createIndex") :
          calls[created].err = NoErr /\ DropIndexCall(c, calls[created].value)

CollectionSpec == CollectionInit /\ [][CollectionNext]_vars

----------------------------------------------------------------------------
(* Properties of the collection *)

\* The rows of a table whose stored array in column holds the value v
RowsHolding(tbl, column, v) ==
    {i \in DOMAIN tbl.rows : \E j \in DOMAIN Elements(tbl.rows[i][column]) : Elements(tbl.rows[i][column])[j] = v}

\* C12: a filter {tags: {$in: ["a"]}} on the array field tags selects exactly
\* the rows whose stored array has the element "a": find returns them all,
\* findOne returns one of them (null only when there is none) and
\* countDocuments returns their number.
C12_ArrayContainment ==
    \A c \in DOMAIN calls :
        /\ calls[c].pc = "done"
        /\ calls[c].op \in {"find", "findOne", "countDocuments"}
        /\ calls[c].filter = Obj1("tags", Obj1("$in", Arr(<<Str("a")>>)))
        => /\ calls[c].err = NoErr
           /\ calls[c].op = "find" => Len(calls[c].value.items) = Cardinality(RowsHolding(calls[c].before, "tags", Str("a")))
           /\ calls[c].op = "findOne" => (calls[c].value = Null <=> RowsHolding(calls[c].before, "tags", Str("a")) = {})
           /\ calls[c].op = "countDocuments" =>
                 calls[c].value = Num(Cardinality(RowsHolding(calls[c].before, "tags", Str("a"))))

\* The rows of a table a filter {_id: id} selects
RowsWithId(tbl, filter) == {i \in DOMAIN tbl.rows : tbl.rows[i]["_id"] = Get(filter, "_id")}

\* The elements of an array after v was added to it as to a set
WithElement(items, v) == IF \E j \in DOMAIN items : items[j] = v THEN items ELSE Append(items, v)

\* An updateOne({_id: id}, {$addToSet: {tags: v}}) of client c has settled, the
\* document was there when it was called, and no other client has called since.
AddToSetSettled(c) ==
    /\ c \in Settled("updateOne")
    /\ HasKey(calls[c].arg, "$addToSet")
    /\ RowsWithId(calls[c].before, calls[c].filter) # {}
    /\ \A other \in DOMAIN calls \ {c} : calls[other].n = 0

\* C13: updateOne({$addToSet: {tags: v}}) on a stored document leaves its
\* array as it was when v is an element of it and appends v once otherwise
\* (to the empty array when the column is NULL), on every adapter; applied
\* again it changes nothing.
C13_AddToSetIdempotent ==
    \A c \in DOMAIN calls :
        AddToSetSettled(c)
        => /\ calls[c].err = NoErr
           /\ \A i \in RowsWithId(calls[c].before, calls[c].filter) :
                 Elements(table.rows[i]["tags"]) =
                    WithElement(Elements(calls[c].before.rows[i]["tags"]), Get(Get(calls[c].arg, "$addToSet"), "tags"))

\* How many elements of an array equal v
Occurrences(items, v) == Cardinality({j \in DOMAIN items : items[j] = v})

\* Both clients have settled an updateOne with the same {$addToSet: {tags: v}}
\* on the same document, which was there when the first of them was called;
\* the second was called while the first was between its statements.
BothAddedToSet ==
    /\ \A c \in DOMAIN calls : c \in Settled("updateOne") /\ HasKey(calls[c].arg, "$addToSet") /\ calls[c].n = 1
    /\ calls[1].filter = calls[2].filter
    /\ calls[1].arg = calls[2].arg
    /\ RowsWithId(calls[1].before, calls[1].filter) # {}

\* C14: after two overlapping updateOne calls that each apply the same
\* {$addToSet: {tags: v}} to one stored document, under every interleaving of
\* their statements, both calls resolve, the array holds v exactly once and
\* every element it held before is still there.
C14_ConcurrentAddToSet ==
    BothAddedToSet
    => /\ \A c \in DOMAIN calls : calls[c].err = NoErr
       /\ \A i \in RowsWithId(calls[1].before, calls[1].filter) :
             /\ Occurrences(Elements(table.rows[i]["tags"]), Get(Get(calls[1].arg, "$addToSet"), "tags")) = 1
             /\ \A j \in DOMAIN Elements(calls[1].before.rows[i]["tags"]) :
                   Occurrences(Elements(table.rows[i]["tags"]), Elements(calls[1].before.rows[i]["tags"])[j]) >= 1

\* Deep equality of two documents: the same fields with the same values, in any order
SameDocument(a, b) ==
    /\ a.t = "obj" /\ b.t = "obj"
    /\ Range(Keys(a)) = Range(Keys(b))
    /\ \A k \in Range(Keys(a)) : Get(a, k) = Get(b, k)

\* Client c has inserted a document with an _id no stored document had, and
\* nothing was written since.
InsertedOne(c) ==
    /\ c \in Settled("insertOne")
    /\ calls[c].err = NoErr
    /\ Truthy(Get(calls[c].arg, "_id"))
    /\ RowsWithId(calls[c].before, calls[c].arg) = {}
    /\ \A other \in DOMAIN calls \ {c} : calls[other].n = 0

\* What findOne({_id: d._id}) and find({_id: d._id}) return for the document d
\* that client c inserted
ReadBackOne(c) ==
    findOne(thisAdapter, isSchemaEnabled, collectionSchemas, thisName, table, Obj1("_id", Get(calls[c].arg, "_id")))
ReadBackAll(c) ==
    find(thisAdapter, isSchemaEnabled, collectionSchemas, thisName, table, Obj1("_id", Get(calls[c].arg, "_id")))

\* C16: a document d that insertOne stored is read back by findOne and by find
\* as a document deep-equal to d, no field lost and none added, whether or
\* not the schema declares an _extra column.
C16_RoundTrip ==
    \A c \in DOMAIN calls :
        InsertedOne(c)
        => /\ ReadBackOne(c).err = NoErr
           /\ SameDocument(ReadBackOne(c).value, calls[c].arg)
           /\ ReadBackAll(c).err = NoErr
           /\ Len(ReadBackAll(c).value.items) = 1
           /\ SameDocument(ReadBackAll(c).value.items[1], calls[c].arg)

\* The stored documents that differ from what they were in the table before
Differing(before, after) == {i \in DOMAIN before.rows : after.rows[i] # before.rows[i]}

\* Client c has settled an updateOne and no other client has called since it began
UpdatedAlone(c) ==
    /\ c \in Settled("updateOne")
    /\ \A other \in DOMAIN calls \ {c} : calls[other].n = 0

\* C17: after updateOne(filter, update), also when several stored documents
\* match the filter, at most one stored document differs from what it was
\* before the call.
C17_UpdatesOneDocument ==
    \A c \in DOMAIN calls :
        UpdatedAlone(c) => Cardinality(Differing(calls[c].before, table)) <= 1

\* The stored documents that a filter of equalities {column: value, ...} matches
Matching(tbl, filter) ==
    {i \in DOMAIN tbl.rows : \A j \in DOMAIN Entries(filter) : tbl.rows[i][Entries(filter)[j].k] = Entries(filter)[j].v}

\* An update with at least one operator, each with at least one field
NonEmptyUpdate(update) ==
    /\ Entries(update) # <<>>
    /\ \A j \in DOMAIN Entries(update) : Entries(Entries(update)[j].v) # <<>>

\* C18: an updateOne with a non-empty update whose filter matches a stored
\* document resolves with acknowledged true, matchedCount 1, modifiedCount 1,
\* upsertedCount 0 and upsertedId null; one whose filter matches nothing and
\* that has no upsert resolves with matchedCount 0 and modifiedCount 0 and has
\* written nothing.
C18_UpdateOneResult ==
    \A c \in DOMAIN calls :
        UpdatedAlone(c)
        => /\ Matching(calls[c].before, calls[c].filter) # {} /\ NonEmptyUpdate(calls[c].arg)
              => /\ calls[c].err = NoErr
                 /\ calls[c].value = UpdateResult(1, 1, 0, Null)
           /\ Matching(calls[c].before, calls[c].filter) = {} /\ ~calls[c].upsert
              => /\ calls[c].err = NoErr
                 /\ calls[c].value = UpdateResult(0, 0, 0, Null)
                 /\ calls[c].writes = 0
                 /\ table = calls[c].before

\* The writeErrors of an InsertManyResult, and the positions they name
WriteErrorsOf(value) == IF Get(value, "writeErrors") = Undef THEN <<>> ELSE Get(value, "writeErrors").items
FailedPositions(value) == {Get(WriteErrorsOf(value)[j], "index").n : j \in DOMAIN WriteErrorsOf(value)}

\* The positions of docs, counted from 0, that are not among the failed ones, in order
KeptPositions(docs, failed) == SelectSeq([p \in DOMAIN docs |-> p - 1], LAMBDA p: p \notin failed)

\* What the result of an insertMany(docs) says of itself
InsertManyCounts(docs, value) ==
    /\ Get(value, "acknowledged") = Bool(TRUE)
    /\ Get(value, "insertedCount") = Num(Len(Get(value, "insertedIds").items))
    /\ Len(Get(value, "insertedIds").items) + Len(WriteErrorsOf(value)) = Len(docs)
    /\ Get(value, "hasWriteErrors") = Bool(FailedPositions(value) # {})
    /\ FailedPositions(value) \subseteq 0..(Len(docs) - 1)
    /\ Cardinality(FailedPositions(value)) = Len(WriteErrorsOf(value))
    /\ \A p \in DOMAIN docs : ~IsObject(docs[p]) => (p - 1) \in FailedPositions(value)

\* What the table holds after an insertMany(docs) that ran alone: a new row
\* for each document that is not among the failed ones, in the order of docs,
\* under the id the result gives for it, and nothing else.
InsertManyStored(docs, value, before, after) ==
    LET ids == Get(value, "insertedIds").items
        kept == KeptPositions(docs, FailedPositions(value))
    IN /\ Len(after.rows) = Len(before.rows) + Len(ids)
       /\ \A i \in DOMAIN before.rows : after.rows[i] = before.rows[i]
       /\ Len(kept) = Len(ids)
       /\ \A j \in DOMAIN ids :
             /\ after.rows[Len(before.rows) + j]["_id"] = ids[j]
             /\ Truthy(Get(docs[kept[j] + 1], "_id")) => ids[j] = Get(docs[kept[j] + 1], "_id")

\* C19: insertMany(docs) with a non-empty list tries every document in the
\* order of the list and goes on after an insert that failed; its result has
\* insertedCount = |insertedIds|, insertedCount + |writeErrors| = |docs|,
\* hasWriteErrors true exactly when an insert failed, and writeErrors naming
\* exactly the positions of the documents that were not stored. With an empty
\* list or a value that is no array it throws and stores nothing.
C19_InsertManyResult ==
    \A c \in Settled("insertMany") :
        IF ~IsArray(calls[c].arg) \/ Len(calls[c].arg.items) = 0
        THEN /\ calls[c].err = "docs parameter must be a non-empty array"
             /\ calls[c].writes = 0
             /\ (\A other \in DOMAIN calls \ {c} : calls[other].n = 0) => table = calls[c].before
        ELSE /\ calls[c].err = NoErr
             /\ calls[c].writes = Len(calls[c].arg.items)
             /\ InsertManyCounts(calls[c].arg.items, calls[c].value)
             /\ (\A other \in DOMAIN calls \ {c} : calls[other].n = 0)
                => InsertManyStored(calls[c].arg.items, calls[c].value, calls[c].before, table)

\* An insertMany has resolved after an insert that failed and a later one that was stored
C19_Witness ==
    \E c \in Settled("insertMany") :
        /\ calls[c].err = NoErr
        /\ \A other \in DOMAIN calls \ {c} : calls[other].n = 0
        /\ \E p \in FailedPositions(calls[c].value) :
              \E j \in DOMAIN KeptPositions(calls[c].arg.items, FailedPositions(calls[c].value)) :
                  /\ KeptPositions(calls[c].arg.items, FailedPositions(calls[c].value))[j] > p
                  /\ Len(table.rows) > Len(calls[c].before.rows)

\* The updateOne of client c, which ran alone, was rejected by the statement
\* of a group after its first one.
FailedInLaterGroup(c) ==
    /\ UpdatedAlone(c)
    /\ calls[c].err # NoErr
    /\ calls[c].i > 1

\* The fields that the $set statements before statement i of an update gave a value
SetBefore(update, i) ==
    UNION {Range(Entries(Get(UpdateGroups(update)[g], "$set"))) : g \in 1..(i - 1)}

\* C20: updateOne runs its operator groups as separate statements one after
\* the other; when the statement of a later group fails after an earlier
\* $set succeeded, the call rejects with that error and the document keeps
\* the value the earlier $set gave it: nothing is rolled back.
C20_NoRollbackAcrossGroups ==
    \A c \in DOMAIN calls :
        FailedInLaterGroup(c)
        => /\ calls[c].value = Undef
           /\ calls[c].writes = calls[c].i
           /\ \A r \in Matching(calls[c].before, calls[c].filter) :
                 \A e \in SetBefore(calls[c].arg, calls[c].i) : table.rows[r][e.k] = e.v

\* An updateOne was rejected by its $push after its $set had changed the document
C20_Witness ==
    \E c \in DOMAIN calls :
        /\ FailedInLaterGroup(c)
        /\ HasKey(calls[c].arg, "$push")
        /\ Matching(calls[c].before, calls[c].filter) # {}
        /\ SetBefore(calls[c].arg, calls[c].i) # {}
        /\ table # calls[c].before

\* C21: a call that was rejected by an error that a translation of the
\* adapter raised (of the filter, the update or the document) has not called
\* connection.query at all.
C21_TranslationFailsBeforeAnyQuery ==
    \A c \in DOMAIN calls :
        calls[c].pc = "done" /\ calls[c].at = "translate" => calls[c].queries = 0

\* A stored document satisfies one field of a filter: {field: value} by
\* equality, {field: {$in: list}} on an array when an element of it is in list
FieldMatches(row, e) ==
    IF IsPlainObject(e.v) /\ HasKey(e.v, "$in")
    THEN \E j \in DOMAIN Elements(row[e.k]) : Elements(row[e.k])[j] \in Range(Get(e.v, "$in").items)
    ELSE row[e.k] = e.v

\* The stored documents a filter selects
MatchingFilter(tbl, filter) ==
    {i \in DOMAIN tbl.rows : \A j \in DOMAIN Entries(filter) : FieldMatches(tbl.rows[i], Entries(filter)[j])}

Without(rows, i) == SubSeq(rows, 1, i - 1) \o SubSeq(rows, i + 1, Len(rows))

\* Client c has settled a deleteOne and no other client has called since it began
DeletedAlone(c) ==
    /\ c \in Settled("deleteOne")
    /\ \A other \in DOMAIN calls \ {c} : calls[other].n = 0

\* C22: a deleteOne whose filter matches stored documents resolves with
\* deletedCount 1 and removes exactly one of them, every other document
\* staying as it was; countDocuments({}) is then one less and findOne with the
\* same filter does not return the removed document. A deleteOne whose
\* filter matches nothing resolves with deletedCount 0 and removes nothing.
C22_DeleteOneRemovesOne ==
    \A c \in DOMAIN calls :
        DeletedAlone(c)
        => IF MatchingFilter(calls[c].before, calls[c].filter) = {}
           THEN /\ calls[c].err = NoErr
                /\ calls[c].value = DeleteResult(0)
                /\ table = calls[c].before
           ELSE /\ calls[c].err = NoErr
                /\ calls[c].value = DeleteResult(1)
                /\ \E i \in MatchingFilter(calls[c].before, calls[c].filter) :
                      table.rows = Without(calls[c].before.rows, i)
                /\ countDocuments(thisAdapter, isSchemaEnabled, collectionSchemas, thisName, table, EmptyFilter).value
                      = Num(Len(calls[c].before.rows) - 1)
                /\ findOne(thisAdapter, isSchemaEnabled, collectionSchemas, thisName, table, calls[c].filter).value
                      # calls[c].found

\* Both clients have resolved a deleteOne, the second called while the first
\* was in its call, and their filters matched the same single stored document
\* when the first was called.
BothDeletedOne ==
    /\ \A c \in DOMAIN calls : c \in Settled("deleteOne") /\ calls[c].n = 1 /\ calls[c].err = NoErr
    /\ Cardinality(MatchingFilter(calls[1].before, calls[1].filter)) = 1
    /\ MatchingFilter(calls[1].before, calls[2].filter) = MatchingFilter(calls[1].before, calls[1].filter)

\* C30: after two overlapping deleteOne calls whose filters match the same
\* single document, under every interleaving of their statements, the
\* deletedCount values they return add up to the number of documents removed
\* from the table, which is one.
C30_DeletedCountsAddUp ==
    BothDeletedOne
    => /\ Len(table.rows) = Len(calls[1].before.rows) - 1
       /\ Get(calls[1].value, "deletedCount").n + Get(calls[2].value, "deletedCount").n
             = Len(calls[1].before.rows) - Len(table.rows)

\* Client c has resolved a createIndex and no other client has called since it began
CreatedIndex(c) ==
    /\ c \in Settled("createIndex")
    /\ calls[c].err = NoErr
    /\ \A other \in DOMAIN calls \ {c} : calls[other].n = 0

\* C29: the name createIndex returns is the name of the index its CREATE INDEX
\* statement made, on every adapter: the index of that name is in the table,
\* and dropIndex with the returned name removes it, leaving the set of
\* indexes as it was before an index that is new was created.
C29_CreateIndexReturnsItsName ==
    \A c \in DOMAIN calls :
        CreatedIndex(c)
        => /\ calls[c].value.text \in table.indexes
           /\ table.indexes = calls[c].before.indexes \cup {calls[c].value.text}
           /\ dropIndex(thisAdapter, table, calls[c].value).err = NoErr
           /\ dropIndex(thisAdapter, table, calls[c].value).table.indexes
                 = calls[c].before.indexes \ {calls[c].value.text}


\* What C23 expects of {$not: sub}: the translation of the sub-filter inside
\* NOT ( ), with the sub-filter's params.
NotExpected(ad, en, schemas, second, sub) ==
    LET inner == translateFilter(ad, en, schemas, sub, second)
        body == StripWhere(inner.sql)
    IN Query(IF body = <<>> THEN <<>>
             ELSE (IF ad = "mysql" THEN <<>> ELSE <<Kw("WHERE ")>>) \o <<Kw("NOT (")>> \o body \o <<Kw(")")>>,
             inner.params, inner.err)

\* C23: on every adapter and translation path, {$not: sub} translates to
\* NOT (<translation of sub>) with the params of sub; the negation is neither
\* dropped nor read as a condition on a column named $not.
C23_NotNegatesSubFilter ==
    FilterCall
    /\ Len(request.filter.e) = 1 /\ request.filter.e[1].k = "$not" /\ IsPlainObject(request.filter.e[1].v)
    => LET expected == NotExpected(request.ad, isSchemaEnabled, collectionSchemas, request.second,
                                   request.filter.e[1].v)
       IN expected.err = NoErr
          => /\ response.err = NoErr
             /\ Unnumber(response.sql) = Unnumber(expected.sql)
             /\ response.params = expected.params


\* The text holds an EXISTS subquery over the elements of a JSON array.
HasExists(text) == \E i \in DOMAIN text : text[i] = Kw("EXISTS (SELECT 1 FROM json_each(")
\* The text reads a path of a whole column: json_extract(<column>, ...)
HasDirectExtract(text) == \E i \in DOMAIN text : text[i] = Kw("json_extract(")

\* C24: on SQLite a filter key that is a dotted path below an array-typed field
\* gives an EXISTS subquery over the array's elements, for a literal and for an
\* operator map alike; json_extract on the whole column is used only when the
\* root is no array.
C24_DottedPathBelowArray ==
    FilterCall /\ request.ad = "sqlite"
    /\ Len(request.filter.e) = 1 /\ IncludesDot(request.filter.e[1].k)
    /\ \/ request.filter.e[1].v.t = "str"
       \/ \E op \in {"$eq", "$gte"}, v \in {Str("x"), Num(25)} : request.filter.e[1].v = Obj1(op, v)
    /\ response.err = NoErr
    => IF isArrayField(collectionSchemas, request.second, Split(request.filter.e[1].k)[1])
       THEN HasExists(response.sql) /\ ~HasDirectExtract(response.sql)
       ELSE ~HasExists(response.sql)


\* The document processQueryResult makes of one raw row, taken alone
RowAlone(row) ==
    SqProcessQueryResult(isSchemaEnabled, collectionSchemas, request.second,
                         RawResult(<<row>>, request.arg.columnNames)).rows

\* C25: processQueryResult gives one document per raw row, for object rows and
\* array rows of any length, with a schema in use or not: the rows come back in
\* the raw rows' number and order, and rowCount is that number.
C25_OneDocumentPerRawRow ==
    response.done /\ request.op = "processQueryResult" /\ "rawResult" \in DOMAIN request.arg
    => /\ Len(response.rows) = Len(request.arg.rawResult)
       /\ response.rowCount = Len(request.arg.rawResult)
       /\ \A i \in DOMAIN response.rows : <<response.rows[i]>> = RowAlone(request.arg.rawResult[i])


RECURSIVE NamesIn(_)
\* The caller-supplied names that stand in the text
NamesIn(text) ==
    UNION {CASE text[i].k = "nm" -> {text[i].s}
             [] text[i].k \in {"q", "slit"} -> NamesIn(text[i].inner)
             [] text[i].k = "frag" -> NamesIn(<<text[i].of>>)
             [] OTHER -> {} : i \in DOMAIN text}

\* The conditions of a statement: what follows its WHERE keyword, and the whole
\* text of a translateFilter that carries none
Conditions(op, text) ==
    IF HasWhere(text)
    THEN LET at == CHOOSE i \in DOMAIN text :
                      text[i] \in {Kw("WHERE "), Kw(" WHERE ")}
                      /\ \A j \in 1..(i - 1) : text[j] \notin {Kw("WHERE "), Kw(" WHERE ")}
         IN SubSeq(text, at + 1, Len(text))
    ELSE IF op = "translateFilter" THEN text ELSE <<>>

\* The filter holds a condition on a field, or a $and / $or / $nor over a
\* non-empty list of non-empty sub-filters.
Conditioned(filter) ==
    /\ filter.e # <<>>
    /\ \A i \in DOMAIN filter.e :
          \/ ~StartsWithDollar(filter.e[i].k)
          \/ /\ filter.e[i].k \in Combinators /\ IsArray(filter.e[i].v) /\ filter.e[i].v.items # <<>>
             /\ \A j \in DOMAIN filter.e[i].v.items : filter.e[i].v.items[j] # EmptyFilter

\* C26: a write is never wider than its filter. On every adapter a filter with
\* a field condition or a non-empty combinator gives translateFilter a
\* non-empty text and translateDelete / translateUpdate a WHERE clause, and the
\* conditions name every top-level field of the filter.
C26_WriteNoWiderThanFilter ==
    /\ response.done /\ response.err = NoErr
    /\ request.op \in {"translateFilter", "translateDelete", "translateUpdate"}
    /\ Conditioned(request.filter)
    => /\ request.op = "translateFilter" => response.sql # <<>>
       /\ request.op # "translateFilter" => HasWhere(response.sql)
       /\ \A i \in DOMAIN request.filter.e :
             ~StartsWithDollar(request.filter.e[i].k)
             => \/ request.filter.e[i].k \in NamesIn(Conditions(request.op, response.sql))
                \/ \A part \in Range(Split(request.filter.e[i].k)) :
                      part \in NamesIn(Conditions(request.op, response.sql))


\* What the read paths of the Collection select with the filter on the table
\* as it is: find, against the count of countDocuments, the document of
\* findOne and the rows deleteMany would remove.
ReadPathsAgreeOn(filter) ==
    LET found == find(thisAdapter, isSchemaEnabled, collectionSchemas, thisName, table, filter)
        counted == countDocuments(thisAdapter, isSchemaEnabled, collectionSchemas, thisName, table, filter)
        one == findOne(thisAdapter, isSchemaEnabled, collectionSchemas, thisName, table, filter)
        deleted == deleteMany(thisAdapter, isSchemaEnabled, collectionSchemas, thisName, table, filter)
    IN found.err = NoErr
       => /\ counted.err = NoErr /\ counted.value = Num(Len(found.value.items))
          /\ one.err = NoErr /\ (one.value = Null <=> found.value.items = <<>>)
          /\ one.value # Null => one.value = found.value.items[1]
          /\ deleted.err = NoErr /\ Get(deleted.value, "deletedCount") = Num(Len(found.value.items))

\* C27: on SQLite with the collection's schema registered and enabled, the
\* same filter selects the same rows in find as in findOne, countDocuments and
\* deleteMany; countDocuments(f) is the length of find(f) on every table state.
C27_ReadPathsAgree ==
    thisAdapter = "sqlite" /\ isSchemaEnabled /\ HasSchema(collectionSchemas, thisName)
    => \A filter \in CollectionFilters : ReadPathsAgreeOn(filter)


\* The column names of a CREATE TABLE or INSERT statement: the quoted names
\* that follow the opening parenthesis of its column list
ColumnsOf(text) ==
    {text[i].inner[1].s : i \in {j \in DOMAIN text : /\ text[j].k = "q"
                                                      /\ \E l \in 1..(j - 1) : text[l] = Kw(" (")}}

\* C28: in the SQLite adapter, for every table created from a schema and every
\* setting of setSchemaEnabled, the columns of the INSERT of translateInsert
\* are columns of the CREATE TABLE of translateSchema for that table; such a
\* table never receives an INSERT in the (_id, data) layout.
C28_InsertFitsCreatedTable ==
    /\ response.done /\ response.err = NoErr
    /\ request.op = "translateInsert" /\ request.ad = "sqlite"
    /\ HasSchema(collectionSchemas, request.second)
    => \A schema \in JsonSchemas :
          analyzeSchema(request.second, schema) = collectionSchemas[request.second]
          => /\ ColumnsOf(response.sql) \subseteq ColumnsOf(translateSchema(request.ad, request.second, schema).sql)
             /\ ColumnsOf(response.sql) # {"_id", "data"}

====
